---- MODULE Spec2Model ----
(***************************************************************************)
(* Bootstrap + signaling + rendezvous server of browser-sync.              *)
(* State machine of server/bootstrap-signaling: the /signal upgrade, the   *)
(* per-session message and close handlers, the rate limiter, the           *)
(* credential check and the rendezvous registry.                           *)
(***************************************************************************)
EXTENDS Integers, Sequences, FiniteSets, TLC

(***************************************************************************)
(* Bounds of the model.                                                    *)
(***************************************************************************)
\* number of websocket objects that can be live at once
MaxSessions == 3
\* RATE_LIMIT_MESSAGES_PER_MINUTE as configured for a run (the default is 300)
MAX_MESSAGES_PER_MINUTE == 3
\* RATE_LIMIT_CONNECTIONS_PER_IP as configured for a run (the default is 12)
MAX_CONNECTIONS_PER_IP == 3
\* the clock advances in steps of TickMs up to MaxNow
TickMs == 30000
MaxNow == 90000
\* caps on the sum of the monotonic scalar counters, one per specification
RelayEvents == 3
ConnEvents == 4
RateEvents == 6
AuthEvents == 3
HubEvents == 4
RegEvents == 2
FrameEvents == 5
OrderEvents == 5
\* upgrades and counted frames in the runs about sessions that outlive their
\* registry record
StaleEvents == 3
\* options.transferRetryLimit as configured for a run (the default is 3)
transferRetryLimit == 3
\* largest totalChunks a file-transfer-start of the runs announces
MaxChunks == 2
\* file-transfer-start messages a panel handles in one run
MaxStarts == 2
\* file-chunk and file-transfer-complete messages a panel handles in one run
MaxFrames == 3
\* connect(), disconnect() and destroy() calls in one run
MaxCalls == 2

(***************************************************************************)
(* Program constants.                                                      *)
(***************************************************************************)
\* allowMessage: now >= bucket.windowStart + 60_000
WINDOW_MS == 60000
\* wss.on('connection'): rendezvous.register({... ttlMs: 60_000 ...})
SESSION_TTL_MS == 60000
\* POST /rendezvous/register: Number(body.ttlMs || 60_000)
DEFAULT_TTL_MS == 60000
\* discover's default limit
DEFAULT_LIMIT == 32

SessIds == 1..MaxSessions

(***************************************************************************)
(* JavaScript Map values: functions with a finite domain.                  *)
(***************************************************************************)
EmptyMap == [x \in {} |-> 0]
MapHas(m, k) == k \in DOMAIN m
MapSet(m, k, v) == [x \in (DOMAIN m) \cup {k} |-> IF x = k THEN v ELSE m[x]]
MapDelete(m, k) == [x \in (DOMAIN m) \ {k} |-> m[x]]

(***************************************************************************)
(* JSON values.  A literal is what the client wrote, a value is what       *)
(* JSON.parse makes of it, and JSON.stringify writes a value back.         *)
(***************************************************************************)
Str(s) == [t |-> "str", v |-> s]
Num(s) == [t |-> "num", v |-> s]
JsNull == [t |-> "null", v |-> "null"]
Undefined == [t |-> "undefined", v |-> ""]

\* JSON.parse of one literal: a number literal beyond the double range
\* becomes Infinity, every other literal keeps its value
JSONparseValue(lit) ==
  IF lit.t = "num" /\ lit.v = "1e400" THEN Num("Infinity") ELSE lit

\* JSON.stringify of one value: non-finite numbers are written as null
JSONstringifyValue(val) ==
  IF val.t = "num" /\ val.v = "Infinity" THEN JsNull ELSE val

\* JSON.stringify of an object: every own property, each value stringified
JSONstringify(obj) == [k \in DOMAIN obj |-> JSONstringifyValue(obj[k])]

\* property read: message.type, message.iceState, ...
Get(obj, k) == IF k \in DOMAIN obj THEN obj[k] ELSE Undefined

\* JavaScript truthiness of a value
Truthy(val) ==
  CASE val.t = "str" -> val.v # ""
    [] val.t = "num" -> val.v # "0"
    [] val.t = "bool" -> val.v = "true"
    [] OTHER -> FALSE

\* new Date().toISOString() at clock reading t
nowIso(t) == Str("T" \o ToString(t))

\* { ...a, ...b }: the properties of b override those of a
Spread(a, b) ==
  [k \in (DOMAIN a) \cup (DOMAIN b) |-> IF k \in DOMAIN b THEN b[k] ELSE a[k]]

(***************************************************************************)
(* Raw frames a client can send on /signal.                                *)
(***************************************************************************)
\* text that is not JSON
RawText == [kind |-> "text", fields |-> EmptyMap]
\* the JSON value null
RawNull == [kind |-> "null", fields |-> EmptyMap]
\* a JSON number, string or boolean: it has no own enumerable properties
\* that the handler reads, and spreads to {}
RawScalar == [kind |-> "scalar", fields |-> EmptyMap]
RawObject(f) == [kind |-> "object", fields |-> f]

\* JSON.parse(String(raw)) for a frame that parses to a non-null value
JSONparse(raw) == [k \in DOMAIN raw.fields |-> JSONparseValue(raw.fields[k])]

(***************************************************************************)
(* Credential verifier.                                                    *)
(***************************************************************************)
\* createHash('sha256').update(token).digest('hex') on the tokens of the model
hashToken(token) ==
  CASE token = "s3cret" -> "1ec1c26b50d5d3c58d9583181af8076655fe00756bf7285940ba3670f99fcba0"
    [] token = "wrong" -> "8810ad581e59f2bc3928b261707a71308f7e139eb04820366dc4d5c18d980225"
    [] token = "" -> "e3b0c44298fc1c149afbf4c8996fb92427ae41e4649b934ca495991b7852b855"

\* crypto.timingSafeEqual on two buffers of equal length
timingSafeEqual(a, b) == a = b

validateTokenNoEmptyCheck(tokenHash, rawToken) ==
  IF tokenHash = "" THEN TRUE
  ELSE IF Len(hashToken(rawToken)) # Len(tokenHash) THEN FALSE
  ELSE timingSafeEqual(hashToken(rawToken), tokenHash)

validateToken(tokenHash, rawToken) ==
  IF tokenHash = "" THEN TRUE
  ELSE IF rawToken = "" THEN FALSE
  ELSE LET hashed == hashToken(rawToken)
       IN IF Len(hashed) # Len(tokenHash) THEN FALSE
          ELSE timingSafeEqual(hashed, tokenHash)

\* the Authorization header of a request: absent, or "Bearer <cred>"
NoAuth == [bearer |-> FALSE, cred |-> ""]
Bearer(tok) == [bearer |-> TRUE, cred |-> tok]

\* the bearer credential wins, else the token query parameter, else ''
parseAuthToken(auth, queryToken) ==
  IF auth.bearer THEN auth.cred ELSE queryToken

\* first hop of X-Forwarded-For when present, else the socket's remote
\* address, else 'unknown'
ipOf(origin) ==
  IF origin.forwarded # <<>> THEN Head(origin.forwarded)
  ELSE IF origin.remote # "" THEN origin.remote ELSE "unknown"

(***************************************************************************)
(* Rate limiter.                                                           *)
(***************************************************************************)
\* the bucket allowMessage works on: a fresh one when the address has none
\* or its window is over
rollWindowLate(rl, ip, t) ==
  IF ~MapHas(rl, ip) \/ t > rl[ip].windowStart + WINDOW_MS
  THEN [windowStart |-> t, count |-> 0]
  ELSE rl[ip]

rollWindow(rl, ip, t) ==
  IF ~MapHas(rl, ip) \/ t >= rl[ip].windowStart + WINDOW_MS
  THEN [windowStart |-> t, count |-> 0]
  ELSE rl[ip]

\* an allowMessage that counts the frames it rejects too
allowMessageCountsRejected(rl, m, ip, t) ==
  LET bucket == rollWindow(rl, ip, t)
      counted == MapSet(rl, ip, [bucket EXCEPT !.count = @ + 1])
  IN IF bucket.count >= MAX_MESSAGES_PER_MINUTE
     THEN [ok |-> FALSE, rateLimitByIp |-> counted,
           metrics |-> [m EXCEPT !.wsRateLimitedTotal = @ + 1]]
     ELSE [ok |-> TRUE, rateLimitByIp |-> counted, metrics |-> m]

allowMessageOffByOne(rl, m, ip, t) ==
  LET bucket == rollWindow(rl, ip, t)
  IN IF bucket.count > MAX_MESSAGES_PER_MINUTE
     THEN [ok |-> FALSE,
           rateLimitByIp |-> MapSet(rl, ip, bucket),
           metrics |-> [m EXCEPT !.wsRateLimitedTotal = @ + 1]]
     ELSE [ok |-> TRUE,
           rateLimitByIp |-> MapSet(rl, ip, [bucket EXCEPT !.count = @ + 1]),
           metrics |-> m]

\* allowMessage(ip) at clock reading t: the verdict, and the limiter map and
\* metrics it leaves
allowMessage(rl, m, ip, t) ==
  LET bucket == rollWindow(rl, ip, t)
  IN IF bucket.count >= MAX_MESSAGES_PER_MINUTE
     THEN [ok |-> FALSE,
           rateLimitByIp |-> MapSet(rl, ip, bucket),
           metrics |-> [m EXCEPT !.wsRateLimitedTotal = @ + 1]]
     ELSE [ok |-> TRUE,
           rateLimitByIp |-> MapSet(rl, ip, [bucket EXCEPT !.count = @ + 1]),
           metrics |-> m]

allowConnectionOffByOne(conn, m, ip) ==
  LET next == (IF MapHas(conn, ip) THEN conn[ip] ELSE 0) + 1
  IN IF next >= MAX_CONNECTIONS_PER_IP
     THEN [ok |-> FALSE, connectionsByIp |-> conn,
           metrics |-> [m EXCEPT !.wsRateLimitedTotal = @ + 1]]
     ELSE [ok |-> TRUE, connectionsByIp |-> MapSet(conn, ip, next), metrics |-> m]

\* allowConnection(ip): the verdict, and the counter map and metrics it leaves
allowConnection(conn, m, ip) ==
  LET next == (IF MapHas(conn, ip) THEN conn[ip] ELSE 0) + 1
  IN IF next > MAX_CONNECTIONS_PER_IP
     THEN [ok |-> FALSE, connectionsByIp |-> conn,
           metrics |-> [m EXCEPT !.wsRateLimitedTotal = @ + 1]]
     ELSE [ok |-> TRUE, connectionsByIp |-> MapSet(conn, ip, next), metrics |-> m]

\* decrementConnection that drops the entry whatever its count
decrementConnectionDeletes(conn, ip) == MapDelete(conn, ip)

\* decrementConnection(ip): (connectionsByIp.get(ip) || 1) - 1
decrementConnection(conn, ip) ==
  LET value == (IF MapHas(conn, ip) /\ conn[ip] # 0 THEN conn[ip] ELSE 1) - 1
  IN IF value <= 0 THEN MapDelete(conn, ip) ELSE MapSet(conn, ip, value)

(***************************************************************************)
(* Room hub.                                                               *)
(***************************************************************************)
roomKey(namespace, room) == namespace \o "::" \o room

\* ensureRoom that installs a new Set even when the key is present
ensureRoomFresh(rms, namespace, room) ==
  MapSet(rms, roomKey(namespace, room), {})

\* ensureRoom(namespace, room): the rooms map with the key present
ensureRoom(rms, namespace, room) ==
  IF MapHas(rms, roomKey(namespace, room)) THEN rms
  ELSE MapSet(rms, roomKey(namespace, room), {})

\* the members relayToRoom sends to
relayTargetsNoSkip(rms, ss, namespace, room, senderId) ==
  IF ~MapHas(rms, roomKey(namespace, room)) THEN {}
  ELSE {w \in rms[roomKey(namespace, room)] : ss[w].readyState = "OPEN"}

relayTargets(rms, ss, namespace, room, senderId) ==
  IF ~MapHas(rms, roomKey(namespace, room)) THEN {}
  ELSE {w \in rms[roomKey(namespace, room)] :
          ~(ss[w].readyState # "OPEN" \/ ss[w].peerId = senderId)}

\* relayToRoom: one ws.send(JSON.stringify(payload)) per target
relayToRoom(rms, ss, out, namespace, room, senderId, payload) ==
  [w \in DOMAIN out |->
     IF w \in relayTargets(rms, ss, namespace, room, senderId)
     THEN Append(out[w], JSONstringify(payload))
     ELSE out[w]]

(***************************************************************************)
(* Rendezvous registry: rooms is a Map roomKey -> Map peerId -> record.    *)
(* An inner Map is the sequence of its values in insertion order, which is *)
(* the order [...roomMap.values()] gives.                                  *)
(***************************************************************************)
\* roomMap.has(peerId)
roomMapHas(roomMap, peerId) ==
  \E i \in 1..Len(roomMap) : roomMap[i].peerId = peerId

\* roomMap.get(peerId), for a key that is present
roomMapGet(roomMap, peerId) ==
  roomMap[CHOOSE i \in 1..Len(roomMap) : roomMap[i].peerId = peerId]

\* roomMap.set(peerId, record) that always adds an entry
roomMapSetAppends(roomMap, peerId, record) == Append(roomMap, record)

\* roomMap.set(peerId, record): a key already present keeps its place
roomMapSet(roomMap, peerId, record) ==
  IF roomMapHas(roomMap, peerId)
  THEN [i \in 1..Len(roomMap) |->
          IF roomMap[i].peerId = peerId THEN record ELSE roomMap[i]]
  ELSE Append(roomMap, record)

\* roomMap.delete(peerId)
roomMapDelete(roomMap, peerId) ==
  SelectSeq(roomMap, LAMBDA r : r.peerId # peerId)

\* RendezvousRegistry.register at clock reading t
register(reg, namespace, room, peerId, addresses, ttlMs, metadata, t) ==
  LET key == roomKey(namespace, room)
      roomMap == IF MapHas(reg, key) THEN reg[key] ELSE <<>>
      record == [peerId |-> peerId, namespace |-> namespace, room |-> room,
                 addresses |-> addresses, metadata |-> metadata,
                 seenAt |-> t, expiresAt |-> t + ttlMs]
  IN MapSet(reg, key, roomMapSet(roomMap, peerId, record))

\* RendezvousRegistry.removePeer: the registry it leaves
removePeer(reg, namespace, room, peerId) ==
  LET key == roomKey(namespace, room)
  IN IF ~MapHas(reg, key) THEN reg
     ELSE LET roomMap == roomMapDelete(reg[key], peerId)
          IN IF Len(roomMap) = 0 THEN MapDelete(reg, key)
             ELSE MapSet(reg, key, roomMap)

\* removePeer that reports a removal whenever the room exists
removePeerReturnsRoom(reg, namespace, room, peerId) ==
  MapHas(reg, roomKey(namespace, room))

\* RendezvousRegistry.removePeer: the boolean it returns
removePeerReturns(reg, namespace, room, peerId) ==
  IF ~MapHas(reg, roomKey(namespace, room)) THEN FALSE
  ELSE roomMapHas(reg[roomKey(namespace, room)], peerId)

\* pruneExpired that keeps the records expiring exactly at t
pruneExpiredLate(reg, t) ==
  LET kept(key) == SelectSeq(reg[key], LAMBDA r : ~(r.expiresAt < t))
  IN [key \in {k \in DOMAIN reg : Len(kept(k)) # 0} |-> kept(key)]

\* RendezvousRegistry.pruneExpired(now)
pruneExpired(reg, t) ==
  LET kept(key) == SelectSeq(reg[key], LAMBDA r : ~(r.expiresAt <= t))
  IN [key \in {k \in DOMAIN reg : Len(kept(k)) # 0} |-> kept(key)]

\* values.sort((a, b) => b.seenAt - a.seenAt): stable, latest seenAt first
sortBySeenAtDesc(values) ==
  LET before(j, i) == \/ values[j].seenAt > values[i].seenAt
                      \/ values[j].seenAt = values[i].seenAt /\ j < i
      rank(i) == 1 + Cardinality({j \in 1..Len(values) : before(j, i)})
  IN [p \in 1..Len(values) |->
        values[CHOOSE i \in 1..Len(values) : rank(i) = p]]

\* values.slice(0, end): a negative end counts from the end of the array
slice(values, end) ==
  LET n == Len(values)
      stop == IF end < 0 THEN (IF n + end > 0 THEN n + end ELSE 0)
              ELSE (IF end < n THEN end ELSE n)
  IN SubSeq(values, 1, stop)

\* a discover that answers from the registry as it is, expired records too
discoverUnpruned(reg, namespace, room, limit, t) ==
  LET key == roomKey(namespace, room)
  IN IF ~MapHas(reg, key) THEN <<>>
     ELSE slice(sortBySeenAtDesc(reg[key]), limit)

\* RendezvousRegistry.discover at clock reading t: what it returns (the
\* registry it leaves is pruneExpired(reg, t))
discover(reg, namespace, room, limit, t) ==
  LET pruned == pruneExpired(reg, t)
      key == roomKey(namespace, room)
  IN IF ~MapHas(pruned, key) THEN <<>>
     ELSE slice(sortBySeenAtDesc(pruned[key]), limit)

(***************************************************************************)
(* State of the server process.                                            *)
(***************************************************************************)
VARIABLES
  now,                \* Date.now(), in ms
  SHARED_TOKEN_HASH,  \* process.env.SIGNAL_TOKEN_SHA256 || ''
  sess,               \* the websocket objects: peerId, namespace, room,
                      \* clientIp of their connection closure, readyState
  rooms,              \* rooms: roomKey -> Set of websockets
  peers,              \* peers: peerId -> websocket
  rendezvous,         \* rendezvous.rooms
  metrics,            \* metrics
  rateLimitByIp,      \* rateLimitByIp: ip -> {windowStart, count}
  connectionsByIp,    \* connectionsByIp: ip -> count
  crashed,            \* an exception left a handler uncaught: the process is gone
  sent,               \* frames the last handler wrote, per websocket, in order
  last,               \* the last handler that ran and how it answered
  arrivals,           \* per address, the arrival time of every frame so far
  inbox,              \* per websocket, what the server has written to it so
                      \* far: the welcome envelopes of its session, and the
                      \* other frames written before the first of them
  order               \* when switched on: per websocket, how many frames it
                      \* has sent, and which relayed frames it has been
                      \* written, oldest first

\* the state of one FileSyncPanel in a browser
VARIABLES
  transfers,          \* this.transfers: transferId -> row shown in the panel
  incomingTransfers,  \* this.incomingTransfers: transferId -> the incoming
                      \* object, by its place in the heap
  heap,               \* the incoming objects created so far, in order
  incomingTransferTimeouts, \* transferIds with a pending 10 s timer
  putFiles,           \* the storage.putFile calls in flight, oldest first:
                      \* the incoming object of each
  journal,            \* what the panel did so far: files stored and sync
                      \* events emitted, counted per transferId
  transport,          \* this.transport: 0 for null, else a transport
  channel,            \* per transport: is it open
  tasks,              \* connect(), disconnect() calls waiting on an await
  upload,             \* the run of _broadcastFileInChunks: where it stands
  sendLog             \* the calls of _sendRoomMessage of the upload, in
                      \* order, and what became of each

serverVars == <<now, SHARED_TOKEN_HASH, sess, rooms, peers, rendezvous,
                metrics, rateLimitByIp, connectionsByIp, crashed, sent, last,
                arrivals, inbox, order>>

panelVars == <<transfers, incomingTransfers, heap, incomingTransferTimeouts,
               putFiles, journal, transport, channel, tasks, upload, sendLog>>

vars == <<serverVars, panelVars>>

\* a websocket slot that holds no live socket
NoSession == [peerId |-> "", namespace |-> "", room |-> "", clientIp |-> "",
              readyState |-> "NONE"]

Live == {w \in SessIds : sess[w].readyState # "NONE"}

NoFrames == [w \in SessIds |-> <<>>]

\* a websocket nothing has been written to
NoInbox == [welcomes |-> 0, early |-> 0]

\* the frame is the welcome envelope of the session: type, peerId,
\* namespace, room and now, with the session's peerId, namespace and room
IsWelcomeOf(frame, me) ==
  /\ DOMAIN frame = {"type", "peerId", "namespace", "room", "now"}
  /\ frame.type = Str("welcome")
  /\ frame.peerId = Str(me.peerId)
  /\ frame.namespace = Str(me.namespace)
  /\ frame.room = Str(me.room)

\* ws.send(frame) for every frame of `frames`, in order, seen from the
\* receiving websockets
deliver(inb, ss, frames) ==
  [w \in SessIds |->
     LET fs == frames[w]
         isW(i) == IsWelcomeOf(fs[i], ss[w])
     IN [welcomes |-> inb[w].welcomes
                      + Cardinality({i \in 1..Len(fs) : isW(i)}),
         early |-> inb[w].early
                   + Cardinality({i \in 1..Len(fs) :
                                    /\ ~isW(i)
                                    /\ inb[w].welcomes = 0
                                    /\ \A j \in 1..(i - 1) : ~isW(j)})]]

\* an answer without a JSON body
NoBody == EmptyMap

LastOp(op, status, ws, ip, raw, allowed, token) ==
  [op |-> op, status |-> status, ws |-> ws, ip |-> ip, raw |-> raw,
   allowed |-> allowed, token |-> token, body |-> NoBody,
   removed |-> FALSE]

\* the sum of the monotonic scalar counters
Events == metrics.wsConnectionsTotal + metrics.wsMessagesTotal
          + metrics.wsAuthFailuresTotal + metrics.wsRateLimitedTotal

InitMetrics ==
  [wsConnectionsTotal |-> 0, wsActiveConnections |-> 0, wsMessagesTotal |-> 0,
   wsAuthFailuresTotal |-> 0, wsRateLimitedTotal |-> 0, relayUsageTotal |-> 0,
   iceState |-> EmptyMap, failureReason |-> EmptyMap,
   byRegionCarrier |-> EmptyMap]

\* the order of frames is not being recorded
OrderOff == [on |-> FALSE, arrived |-> [w \in SessIds |-> 0],
             got |-> [w \in SessIds |-> <<>>]]

\* the order of frames is being recorded, nothing has happened yet
OrderOn == [OrderOff EXCEPT !.on = TRUE]

\* recordOrder with the socket queueing a new frame ahead of the older ones
recordOrderAhead(ord, ws, frames) ==
  IF ~ord.on THEN ord
  ELSE [on |-> TRUE,
        arrived |-> [ord.arrived EXCEPT ![ws] = @ + 1],
        got |-> [w \in SessIds |->
                   IF w = ws THEN ord.got[w]
                   ELSE [i \in 1..Len(frames[w]) |->
                           <<ws, ord.arrived[ws] + 1>>] \o ord.got[w]]]

\* the frame websocket ws sent is counted, and every frame its handler wrote
\* to another websocket (a relayed copy of it) is queued on that websocket
\* behind the frames written before
recordOrder(ord, ws, frames) ==
  IF ~ord.on THEN ord
  ELSE [on |-> TRUE,
        arrived |-> [ord.arrived EXCEPT ![ws] = @ + 1],
        got |-> [w \in SessIds |->
                   IF w = ws THEN ord.got[w]
                   ELSE ord.got[w] \o [i \in 1..Len(frames[w]) |->
                                         <<ws, ord.arrived[ws] + 1>>]]]

\* websocket ws is gone: what it sent and what it was written is dropped
forgetOrder(ord, ws) ==
  IF ~ord.on THEN ord
  ELSE [on |-> TRUE,
        arrived |-> [ord.arrived EXCEPT ![ws] = 0],
        got |-> [w \in SessIds |->
                   IF w = ws THEN <<>>
                   ELSE SelectSeq(ord.got[w], LAMBDA e : e[1] # ws)]]

\* the process right after start, with the digest taken from the
\* environment, recording the order of frames or not
(***************************************************************************)
(* State of the file-sync panel.                                           *)
(***************************************************************************)
\* the transferId the incoming messages carry; a message for a transfer the
\* panel does not know is one that arrives before its start or after its end
TransferIds == {"t1"}

\* the transferId of the panel's own upload
UploadId == "up"

\* the transports createPeerTransport can hand out in one run
TransportIds == 1..(MaxCalls + 1)

\* this.chunkBytes: Math.max(8 * 1024, Number(options.chunkBytes || 65536))
\* with options.chunkBytes = 8192
chunkBytes == 8192

\* nothing done yet: starts and other frames handled, frames that found
\* their transfer finalized, connect/disconnect/destroy calls, transports
\* created, successful storage.putFile calls and
\* download-complete events per transferId, files stored with a chunk
\* missing, upload-complete events
NoJournal == [starts |-> 0, frames |-> 0, whileFinalized |-> 0, calls |-> 0,
              transports |-> 1,
              stored |-> [t \in TransferIds |-> 0],
              downloadComplete |-> [t \in TransferIds |-> 0],
              partial |-> 0,
              uploadComplete |-> 0]

\* _broadcastFileInChunks is not running
NoUpload == [pc |-> "idle", totalChunks |-> 0, type |-> "", index |-> 0,
             attempt |-> 0, outcome |-> ""]

\* the panel after its constructor's _init() has settled: storage set up,
\* connected through a first transport, no transfer known
PanelReady ==
  /\ transfers = EmptyMap
  /\ incomingTransfers = EmptyMap
  /\ heap = <<>>
  /\ incomingTransferTimeouts = {}
  /\ putFiles = <<>>
  /\ journal = NoJournal
  /\ transport = 1
  /\ channel = [c \in TransportIds |-> c = 1]
  /\ tasks = {}
  /\ upload = NoUpload
  /\ sendLog = <<>>

InitState(hashes, recording) ==
  /\ now = 0
  /\ SHARED_TOKEN_HASH \in hashes
  /\ sess = [w \in SessIds |-> NoSession]
  /\ rooms = EmptyMap
  /\ peers = EmptyMap
  /\ rendezvous = EmptyMap
  /\ metrics = InitMetrics
  /\ rateLimitByIp = EmptyMap
  /\ connectionsByIp = EmptyMap
  /\ crashed = FALSE
  /\ sent = NoFrames
  /\ last = LastOp("start", 0, 0, "", RawText, FALSE, "")
  /\ arrivals = EmptyMap
  /\ inbox = [w \in SessIds |-> NoInbox]
  /\ order = IF recording THEN OrderOn ELSE OrderOff
  /\ PanelReady

\* the process right after start, with the digest taken from the environment
InitWith(hashes) == InitState(hashes, FALSE)

(***************************************************************************)
(* server.on('upgrade') followed, when the handshake completes, by         *)
(* wss.on('connection').                                                   *)
(***************************************************************************)
\* an upgrade handler that looks at the token before the connection cap
upgradeStatusTokenFirst(path, connOk, tokenOk, handshakeOk) ==
  IF path # "/signal" THEN 404
  ELSE IF ~tokenOk THEN 401
  ELSE IF ~connOk THEN 429
  ELSE IF ~handshakeOk THEN 400
  ELSE 101

\* the answer to an upgrade: 404 off /signal, 429 over the connection cap,
\* 401 on a bad token, 400 when the websocket handshake itself is refused
\* by handleUpgrade, else 101
upgradeStatus(path, connOk, tokenOk, handshakeOk) ==
  IF path # "/signal" THEN 404
  ELSE IF ~connOk THEN 429
  ELSE IF ~tokenOk THEN 401
  ELSE IF ~handshakeOk THEN 400
  ELSE 101

\* { ...message, sourcePeerId, namespace, room, receivedAt } with the
\* client's fields spread last
relayPayloadClientWins(message, peerId, namespace, room, t) ==
  Spread([sourcePeerId |-> Str(peerId), namespace |-> Str(namespace),
          room |-> Str(room), receivedAt |-> nowIso(t)],
         message)

\* the relay envelope: { ...message, sourcePeerId: peerId, namespace, room,
\* receivedAt: nowIso() }
relayPayload(message, peerId, namespace, room, t) ==
  Spread(message,
         [sourcePeerId |-> Str(peerId), namespace |-> Str(namespace),
          room |-> Str(room), receivedAt |-> nowIso(t)])

\* the welcome envelope with namespace and room taken from each other
welcomeFrameSwapped(peerId, namespace, room, t) ==
  [type |-> Str("welcome"), peerId |-> Str(peerId),
   namespace |-> Str(room), room |-> Str(namespace), now |-> nowIso(t)]

welcomeFrame(peerId, namespace, room, t) ==
  [type |-> Str("welcome"), peerId |-> Str(peerId),
   namespace |-> Str(namespace), room |-> Str(room), now |-> nowIso(t)]

errorFrame(code) == [type |-> Str("error"), code |-> Str(code)]

heartbeatAck(t) == [type |-> Str("heartbeat-ack"), now |-> nowIso(t)]

\* the websocket object the next completed handshake creates
NewSocket == CHOOSE w \in SessIds \ Live : \A x \in SessIds \ Live : w <= x

\* an upgrade request: its path, where it comes from, its Authorization
\* header and its query parameters ("" for a parameter that is absent)
Request(path, origin, auth, token, namespace, room, peerId) ==
  [path |-> path, origin |-> origin, auth |-> auth, token |-> token,
   namespace |-> namespace, room |-> room, peerId |-> peerId]

\* genId is the id `peer-${Date.now()}-${random}` would give; handshakeOk
\* tells whether handleUpgrade completes the handshake and calls back
Upgrade(request, genId, handshakeOk) ==
  LET clientIp == ipOf(request.origin)
      conn == allowConnection(connectionsByIp, metrics, clientIp)
      token == parseAuthToken(request.auth, request.token)
      namespace == IF request.namespace # "" THEN request.namespace
                   ELSE "global"
      room == IF request.room # "" THEN request.room ELSE "public"
      peerId == IF request.peerId # "" THEN request.peerId ELSE genId
      status == upgradeStatus(request.path, conn.ok,
                              validateToken(SHARED_TOKEN_HASH, token),
                              handshakeOk)
      ws == NewSocket
      withRoom == ensureRoom(rooms, namespace, room)
      key == roomKey(namespace, room)
  IN /\ ~crashed
     /\ status = 101 => Live # SessIds
     /\ connectionsByIp' =
          IF status \in {401, 400, 101} THEN conn.connectionsByIp
          ELSE connectionsByIp
     /\ metrics' =
          CASE status = 429 -> conn.metrics
            [] status = 401 -> [metrics EXCEPT !.wsAuthFailuresTotal = @ + 1]
            [] status = 101 -> [metrics EXCEPT !.wsConnectionsTotal = @ + 1,
                                               !.wsActiveConnections = @ + 1]
            [] OTHER -> metrics
     /\ sess' = IF status = 101
                THEN [sess EXCEPT ![ws] =
                        [peerId |-> peerId, namespace |-> namespace,
                         room |-> room, clientIp |-> clientIp,
                         readyState |-> "OPEN"]]
                ELSE sess
     /\ rooms' = IF status = 101
                 THEN MapSet(withRoom, key, withRoom[key] \cup {ws})
                 ELSE rooms
     /\ peers' = IF status = 101 THEN MapSet(peers, peerId, ws) ELSE peers
     /\ rendezvous' =
          IF status = 101
          THEN register(rendezvous, namespace, room, peerId, <<clientIp>>,
                        SESSION_TTL_MS, [transport |-> "websocket"], now)
          ELSE rendezvous
     /\ sent' = IF status = 101
                THEN [NoFrames EXCEPT ![ws] =
                        <<welcomeFrame(peerId, namespace, room, now)>>]
                ELSE NoFrames
     /\ last' = LastOp("upgrade", status, IF status = 101 THEN ws ELSE 0,
                       IF status = 404 THEN "" ELSE clientIp, RawText, FALSE,
                       IF status = 404 THEN "" ELSE token)
     /\ inbox' = deliver(inbox, sess', sent')
     /\ UNCHANGED <<now, SHARED_TOKEN_HASH, rateLimitByIp, crashed, arrivals,
                    order,
                    panelVars>>

(***************************************************************************)
(* ws.on('message').                                                       *)
(***************************************************************************)
\* a metricMapInc that starts a new Map with the one label
metricMapIncFresh(map, key, value) == MapSet(EmptyMap, key, value)

\* metricMapInc(map, key, value)
metricMapInc(map, key, value) ==
  MapSet(map, key, (IF MapHas(map, key) THEN map[key] ELSE 0) + value)

\* String(x) inside a template literal
ToStr(val) == val.v

\* a || 'unknown'
OrUnknown(val) == IF Truthy(val) THEN val ELSE Str("unknown")

\* the telemetry branch counting relay usage whatever relayUsed says
telemetryMetricsCountsRelay(m, message) ==
  LET m1 == [m EXCEPT !.iceState =
               metricMapInc(@, OrUnknown(Get(message, "iceState")), 1)]
      m2 == IF Truthy(Get(message, "failureReason"))
            THEN [m1 EXCEPT !.failureReason =
                    metricMapInc(@, Get(message, "failureReason"), 1)]
            ELSE m1
      m3 == [m2 EXCEPT !.relayUsageTotal = @ + 1]
  IN IF Truthy(Get(message, "region")) \/ Truthy(Get(message, "carrier"))
     THEN [m3 EXCEPT !.byRegionCarrier =
             metricMapInc(@, ToStr(OrUnknown(Get(message, "region"))) \o "::"
                             \o ToStr(OrUnknown(Get(message, "carrier"))), 1)]
     ELSE m3

\* the telemetry branch's updates of the metrics
telemetryMetrics(m, message) ==
  LET m1 == [m EXCEPT !.iceState =
               metricMapInc(@, OrUnknown(Get(message, "iceState")), 1)]
      m2 == IF Truthy(Get(message, "failureReason"))
            THEN [m1 EXCEPT !.failureReason =
                    metricMapInc(@, Get(message, "failureReason"), 1)]
            ELSE m1
      m3 == IF Truthy(Get(message, "relayUsed"))
            THEN [m2 EXCEPT !.relayUsageTotal = @ + 1]
            ELSE m2
  IN IF Truthy(Get(message, "region")) \/ Truthy(Get(message, "carrier"))
     THEN [m3 EXCEPT !.byRegionCarrier =
             metricMapInc(@, ToStr(OrUnknown(Get(message, "region"))) \o "::"
                             \o ToStr(OrUnknown(Get(message, "carrier"))), 1)]
     ELSE m3

\* dispatch without the heartbeat branch
dispatchNoHeartbeat(raw) ==
  CASE raw.kind = "text" -> "invalid_json"
    [] raw.kind = "null" -> "throws"
    [] OTHER ->
         IF Get(JSONparse(raw), "type") = Str("telemetry") THEN "telemetry"
         ELSE "relay"

\* what the handler does with a frame that passed the rate check:
\* "invalid_json", "throws" (message.type of null), "heartbeat",
\* "telemetry" or "relay"
dispatch(raw) ==
  CASE raw.kind = "text" -> "invalid_json"
    [] raw.kind = "null" -> "throws"
    [] OTHER ->
         IF Get(JSONparse(raw), "type") = Str("heartbeat") THEN "heartbeat"
         ELSE IF Get(JSONparse(raw), "type") = Str("telemetry") THEN "telemetry"
         ELSE "relay"

Message(ws, raw) ==
  LET me == sess[ws]
      am == allowMessage(rateLimitByIp, metrics, me.clientIp, now)
      counted == [am.metrics EXCEPT !.wsMessagesTotal = @ + 1]
      what == IF am.ok THEN dispatch(raw) ELSE "rate_limited"
      message == JSONparse(raw)
  IN /\ ~crashed
     /\ me.readyState = "OPEN"
     /\ rateLimitByIp' = am.rateLimitByIp
     /\ metrics' = CASE what = "rate_limited" -> am.metrics
                     [] what = "telemetry" -> telemetryMetrics(counted, message)
                     [] OTHER -> counted
     /\ crashed' = (what = "throws")
     /\ sent' =
          CASE what = "rate_limited" ->
                 [NoFrames EXCEPT ![ws] = <<errorFrame("rate_limited")>>]
            [] what = "invalid_json" ->
                 [NoFrames EXCEPT ![ws] = <<errorFrame("invalid_json")>>]
            [] what = "heartbeat" ->
                 [NoFrames EXCEPT ![ws] = <<heartbeatAck(now)>>]
            [] what = "relay" ->
                 relayToRoom(rooms, sess, NoFrames, me.namespace, me.room,
                             me.peerId,
                             relayPayload(message, me.peerId, me.namespace,
                                          me.room, now))
            [] OTHER -> NoFrames
     /\ last' = LastOp("message", 0, ws, me.clientIp, raw, am.ok, "")
     /\ arrivals' = MapSet(arrivals, me.clientIp,
                           Append(IF MapHas(arrivals, me.clientIp)
                                  THEN arrivals[me.clientIp] ELSE <<>>, now))
     /\ inbox' = deliver(inbox, sess', sent')
     /\ order' = recordOrder(order, ws, sent')
     /\ UNCHANGED <<now, SHARED_TOKEN_HASH, sess, rooms, peers, rendezvous,
                    connectionsByIp,
                    panelVars>>

(***************************************************************************)
(* The close of a websocket.                                               *)
(***************************************************************************)
\* the closing handshake starts (a close frame arrived): readyState leaves
\* OPEN before the 'close' event is emitted
BeginClose(ws) ==
  /\ ~crashed
  /\ sess[ws].readyState = "OPEN"
  /\ sess' = [sess EXCEPT ![ws].readyState = "CLOSING"]
  /\ sent' = NoFrames
  /\ last' = LastOp("closing", 0, ws, sess[ws].clientIp, RawText, FALSE, "")
  /\ UNCHANGED <<now, SHARED_TOKEN_HASH, rooms, peers, rendezvous, metrics,
                 rateLimitByIp, connectionsByIp, crashed, arrivals, inbox,
                    order,
                    panelVars>>

\* the active gauge after a close: Math.max(0, wsActiveConnections - 1)
activeAfterCloseUnchanged(active) == active

activeAfterClose(active) == IF active - 1 > 0 THEN active - 1 ELSE 0

\* members.delete(ws) that leaves the emptied Set in the map
deleteMemberKeepsRoom(rms, key, ws) ==
  IF ~MapHas(rms, key) THEN rms ELSE MapSet(rms, key, rms[key] \ {ws})

\* members.delete(ws), and rooms.delete(key) when the Set is left empty
deleteMember(rms, key, ws) ==
  IF ~MapHas(rms, key) THEN rms
  ELSE IF rms[key] \ {ws} = {} THEN MapDelete(rms, key)
  ELSE MapSet(rms, key, rms[key] \ {ws})

\* ws.on('close')
Close(ws) ==
  LET me == sess[ws]
      key == roomKey(me.namespace, me.room)
  IN /\ ~crashed
     /\ me.readyState \in {"OPEN", "CLOSING"}
     /\ rooms' = deleteMember(rooms, key, ws)
     /\ peers' = MapDelete(peers, me.peerId)
     /\ rendezvous' = removePeer(rendezvous, me.namespace, me.room, me.peerId)
     /\ connectionsByIp' = decrementConnection(connectionsByIp, me.clientIp)
     /\ metrics' = [metrics EXCEPT !.wsActiveConnections = activeAfterClose(@)]
     /\ sess' = [sess EXCEPT ![ws] = NoSession]
     /\ sent' = NoFrames
     /\ last' = [LastOp("close", 0, ws, me.clientIp, RawText, FALSE, "")
                   EXCEPT !.removed =
                     removePeerReturns(rendezvous, me.namespace, me.room,
                                       me.peerId)]
     /\ inbox' = [inbox EXCEPT ![ws] = NoInbox]
     /\ order' = forgetOrder(order, ws)
     /\ UNCHANGED <<now, SHARED_TOKEN_HASH, rateLimitByIp, crashed, arrivals,
                    panelVars>>

(***************************************************************************)
(* Time, the pruner and the HTTP surface.                                  *)
(***************************************************************************)
\* the clock moves on
Tick ==
  /\ ~crashed
  /\ now + TickMs <= MaxNow
  /\ now' = now + TickMs
  /\ sent' = NoFrames
  /\ last' = LastOp("tick", 0, 0, "", RawText, FALSE, "")
  /\ UNCHANGED <<SHARED_TOKEN_HASH, sess, rooms, peers, rendezvous, metrics,
                 rateLimitByIp, connectionsByIp, crashed, arrivals, inbox,
                    order,
                    panelVars>>

\* setInterval(() => rendezvous.pruneExpired(), 30_000)
Prune ==
  /\ ~crashed
  /\ rendezvous' = pruneExpired(rendezvous, now)
  /\ sent' = NoFrames
  /\ last' = LastOp("prune", 0, 0, "", RawText, FALSE, "")
  /\ UNCHANGED <<now, SHARED_TOKEN_HASH, sess, rooms, peers, metrics,
                 rateLimitByIp, connectionsByIp, crashed, arrivals, inbox,
                    order,
                    panelVars>>

registerStatusOpen(tokenOk, body) ==
  IF body.kind \in {"text", "null"} THEN 400
  ELSE 200

\* the answer to POST /rendezvous/register: 401 on a bad token, 400 when the
\* body does not parse or reading it throws, else 200
registerStatus(tokenOk, body) ==
  IF ~tokenOk THEN 401
  ELSE IF body.kind \in {"text", "null"} THEN 400
  ELSE 200

\* Number(x) on the number literals of the model
Number(val) ==
  CASE val.v = "50" -> 50
    [] val.v = "-5" -> 0 - 5
    [] val.v = "1" -> 1
    [] val.v = "-1" -> 0 - 1
    [] val.v = "32" -> 32
    [] OTHER -> 0

\* POST /rendezvous/register.  The bodies of the model carry no addresses
\* and no metadata, so body.addresses || [] is [] and body.metadata || {} is
\* {}; a body without peerId registers under the key undefined, written ""
HttpRegister(auth, queryToken, body) ==
  LET token == parseAuthToken(auth, queryToken)
      status == registerStatus(validateToken(SHARED_TOKEN_HASH, token), body)
      b == JSONparse(body)
      field(k, dflt) == IF Truthy(Get(b, k)) THEN ToStr(Get(b, k)) ELSE dflt
      ttlMs == IF Truthy(Get(b, "ttlMs")) THEN Number(Get(b, "ttlMs"))
               ELSE DEFAULT_TTL_MS
  IN /\ ~crashed
     /\ metrics' = IF status = 401
                   THEN [metrics EXCEPT !.wsAuthFailuresTotal = @ + 1]
                   ELSE metrics
     /\ rendezvous' =
          IF status = 200
          THEN register(rendezvous, field("namespace", "global"),
                        field("room", "public"), ToStr(Get(b, "peerId")),
                        <<>>, ttlMs, EmptyMap, now)
          ELSE rendezvous
     /\ sent' = NoFrames
     /\ last' = [LastOp("register", status, 0, "", body, FALSE, token)
                   EXCEPT !.body =
                     IF status = 200
                     THEN roomMapGet(rendezvous'[roomKey(
                                       field("namespace", "global"),
                                       field("room", "public"))],
                                     ToStr(Get(b, "peerId")))
                     ELSE NoBody]
     /\ UNCHANGED <<now, SHARED_TOKEN_HASH, sess, rooms, peers, rateLimitByIp,
                    connectionsByIp, crashed, arrivals, inbox,
                    order,
                    panelVars>>

\* GET /bootstrap?namespace=..&room=..: "" stands for an absent parameter
HttpBootstrap(namespace, room) ==
  LET ns == IF namespace # "" THEN namespace ELSE "global"
      rm == IF room # "" THEN room ELSE "public"
      key == roomKey(ns, rm)
      peersInRoom == Cardinality(IF MapHas(rooms, key) THEN rooms[key] ELSE {})
  IN /\ ~crashed
     /\ sent' = NoFrames
     /\ last' = [LastOp("bootstrap", 200, 0, "", RawText, FALSE, "")
                   EXCEPT !.body = [namespace |-> ns, room |-> rm,
                                    peers |-> peersInRoom,
                                    signalingUrl |-> "wss://example.com/signal"]]
     /\ UNCHANGED <<now, SHARED_TOKEN_HASH, sess, rooms, peers, rendezvous,
                    metrics, rateLimitByIp, connectionsByIp, crashed,
                    arrivals, inbox,
                    order,
                    panelVars>>

\* GET /rendezvous/discover?namespace=..&room=..&limit=..: "" stands for an
\* absent parameter; discover prunes the registry before it reads it; the
\* limit parameter of the request is kept in last.raw
HttpDiscover(namespace, room, limit) ==
  LET ns == IF namespace # "" THEN namespace ELSE "global"
      rm == IF room # "" THEN room ELSE "public"
      lim == Number(Str(IF limit # "" THEN limit ELSE "32"))
  IN /\ ~crashed
     /\ rendezvous' = pruneExpired(rendezvous, now)
     /\ sent' = NoFrames
     /\ last' = [LastOp("discover", 200, 0, "",
                         RawObject([limit |-> Str(limit)]), FALSE, "")
                   EXCEPT !.body = [namespace |-> ns, room |-> rm,
                                    peers |-> discover(rendezvous, ns, rm,
                                                       lim, now)]]
     /\ UNCHANGED <<now, SHARED_TOKEN_HASH, sess, rooms, peers, metrics,
                    rateLimitByIp, connectionsByIp, crashed, arrivals, inbox,
                    order,
                    panelVars>>

(***************************************************************************)
(* Requests and frames of the model.                                       *)
(***************************************************************************)
\* a direct connection, and one through a proxy that names another client
Direct == [forwarded |-> <<>>, remote |-> "10.0.0.1"]
Proxied == [forwarded |-> <<"10.0.0.2", "10.0.0.1">>, remote |-> "10.0.0.1"]

Offer == RawObject([type |-> Str("offer"), sdp |-> Str("v=0")])
\* an offer whose sender fills in the envelope fields itself
Spoofed == RawObject([type |-> Str("offer"), sourcePeerId |-> Str("B"),
                      namespace |-> Str("a"), room |-> Str("c"),
                      receivedAt |-> Str("client"), seq |-> Num("1e400")])
Heartbeat == RawObject([type |-> Str("heartbeat")])
Telemetry == RawObject([type |-> Str("telemetry"), iceState |-> Str("failed"),
                        failureReason |-> Str("timeout"),
                        relayUsed |-> [t |-> "bool", v |-> "true"],
                        region |-> Str("eu")])
\* telemetry without any of the optional fields, and with a carrier only
TelemetryBare == RawObject([type |-> Str("telemetry")])
TelemetryCarrier == RawObject([type |-> Str("telemetry"),
                               iceState |-> Str("connected"),
                               relayUsed |-> [t |-> "bool", v |-> "false"],
                               carrier |-> Str("kt")])

GenPeerId == "peer-0-1f"

(***************************************************************************)
(* Rooms and relay: no digest configured, one client address.              *)
(***************************************************************************)
RelayRooms == {<<"a", "c">>, <<"a::b", "c">>, <<"a", "b::c">>}
RelayPeerIds == {"A", "B"}
RelayFrames == {Offer, Spoofed, Heartbeat}

InitRelay == InitWith({""})

RelayUpgrade ==
  /\ Events < RelayEvents
  /\ \E nr \in RelayRooms, pid \in RelayPeerIds :
       Upgrade(Request("/signal", Direct, NoAuth, "", nr[1], nr[2], pid),
               GenPeerId, TRUE)

RelayMessage ==
  /\ Events < RelayEvents
  /\ \E ws \in SessIds, raw \in RelayFrames : Message(ws, raw)

RelayBeginClose == \E ws \in SessIds : BeginClose(ws)

RelayClose == \E ws \in SessIds : Close(ws)

NextRelay == RelayUpgrade \/ RelayMessage \/ RelayBeginClose \/ RelayClose

SpecRelay == InitRelay /\ [][NextRelay]_vars

(***************************************************************************)
(* Properties of the fan-out.                                              *)
(***************************************************************************)
\* the frames of the last handler that are relay envelopes
IsRelayFrame(f) == "sourcePeerId" \in DOMAIN f

\* the last handler relayed a frame of the session last.ws
Relayed == last.op = "message" /\ last.allowed /\ dispatch(last.raw) = "relay"

\* C1: no relay frame that carries a session's own peer id as sourcePeerId
\* is written to that session, and the handler of a session's frame writes
\* no relay frame to that session.
C1_NoEcho ==
  /\ \A w \in SessIds : \A i \in 1..Len(sent[w]) :
        IsRelayFrame(sent[w][i]) =>
          sent[w][i].sourcePeerId # Str(sess[w].peerId)
  /\ Relayed => \A i \in 1..Len(sent[last.ws]) :
                   ~IsRelayFrame(sent[last.ws][i])

\* a session relayed a frame and another session got it
C1_Witness ==
  /\ Relayed
  /\ \E w \in Live \ {last.ws} : sent[w] # <<>> /\ IsRelayFrame(sent[w][1])

\* C2: when a session's JSON object that is neither heartbeat nor telemetry
\* passes the rate check, every other open member of its room is written
\* exactly one relay frame and the sender none.
C2_EveryOtherOpenMemberGetsOne ==
  (Relayed /\ last.raw.kind = "object") =>
    /\ \A w \in rooms[roomKey(sess[last.ws].namespace, sess[last.ws].room)] :
          (w # last.ws /\ sess[w].readyState = "OPEN") =>
            Len(sent[w]) = 1 /\ IsRelayFrame(sent[w][1])
    /\ sent[last.ws] = <<>>

\* the envelope fields the server stamps
Stamped == {"sourcePeerId", "namespace", "room", "receivedAt"}

\* C3 as stated: the three envelope fields are the server's, and every
\* other field the client sent arrives as the client wrote it.
C3_OtherFieldsUnchanged ==
  Relayed =>
    \A w \in SessIds : \A i \in 1..Len(sent[w]) :
      LET f == sent[w][i]
          me == sess[last.ws]
      IN /\ f.sourcePeerId = Str(me.peerId)
         /\ f.namespace = Str(me.namespace)
         /\ f.room = Str(me.room)
         /\ \A k \in (DOMAIN last.raw.fields)
                        \ {"sourcePeerId", "namespace", "room"} :
               k \in DOMAIN f /\ f[k] = last.raw.fields[k]

\* C3 amended: sourcePeerId, namespace and room are the sending session's
\* server-side values and receivedAt is the server's time of receipt,
\* whatever the client put in these four fields; every other field the
\* client sent arrives with the value JSON.parse and JSON.stringify give
\* it, and the frame has no further field.
C3_StampedEnvelope ==
  Relayed =>
    \A w \in SessIds : \A i \in 1..Len(sent[w]) :
      LET f == sent[w][i]
          me == sess[last.ws]
      IN /\ f.sourcePeerId = Str(me.peerId)
         /\ f.namespace = Str(me.namespace)
         /\ f.room = Str(me.room)
         /\ f.receivedAt = nowIso(now)
         /\ DOMAIN f = (DOMAIN last.raw.fields) \cup Stamped
         /\ \A k \in (DOMAIN last.raw.fields) \ Stamped :
               f[k] = JSONstringifyValue(JSONparseValue(last.raw.fields[k]))

\* a frame whose sender filled in the envelope fields with values that are
\* not its own was delivered
C3_Witness ==
  /\ Relayed
  /\ last.raw = Spoofed
  /\ sess[last.ws].peerId = "A" /\ sess[last.ws].namespace = "a::b"
  /\ \E w \in Live \ {last.ws} : Len(sent[w]) = 1

\* C4: all sessions of one room hub bucket have the same namespace and the
\* same room, and a relay frame is written only to sessions whose
\* namespace and room are the sender's.
C4_BucketIsOneRoom ==
  /\ \A key \in DOMAIN rooms : \A v, w \in rooms[key] :
        sess[v].namespace = sess[w].namespace /\ sess[v].room = sess[w].room
  /\ Relayed => \A w \in SessIds :
        sent[w] # <<>> => /\ sess[w].namespace = sess[last.ws].namespace
                          /\ sess[w].room = sess[last.ws].room

\* the number of websockets held in the buckets named by keys
RECURSIVE MemberCount(_, _)
MemberCount(rms, keys) ==
  IF keys = {} THEN 0
  ELSE LET k == CHOOSE x \in keys : TRUE
       IN Cardinality(rms[k]) + MemberCount(rms, keys \ {k})

\* C6: the gauge wsActiveConnections equals the number of sessions held in
\* all room hub buckets together, and is never negative.
C6_ActiveIsMembers ==
  /\ metrics.wsActiveConnections = MemberCount(rooms, DOMAIN rooms)
  /\ metrics.wsActiveConnections >= 0

\* a session closed while two others in two buckets stay
C6_Witness ==
  /\ last.op = "close"
  /\ metrics.wsActiveConnections = 2
  /\ Cardinality(DOMAIN rooms) = 2

\* C14: every live session, open or closing, is in the bucket of its own
\* (namespace, room) and in no other bucket, and a bucket holds live
\* sessions only.
C14_ExactlyOneBucket ==
  /\ \A w \in Live :
        LET key == roomKey(sess[w].namespace, sess[w].room)
        IN /\ MapHas(rooms, key) /\ w \in rooms[key]
           /\ \A k \in DOMAIN rooms \ {key} : w \notin rooms[k]
  /\ \A k \in DOMAIN rooms : rooms[k] \subseteq Live

\* two sessions share a bucket, one of them closing, and a third session is
\* in another bucket
C14_Witness ==
  \E k1, k2 \in DOMAIN rooms :
    /\ k1 # k2
    /\ Cardinality(rooms[k1]) = 2
    /\ \E w \in rooms[k1] : sess[w].readyState = "CLOSING"
    /\ rooms[k2] # {}

\* C12: every live session has been written its welcome envelope (type
\* welcome with the session's peerId, namespace and room) exactly once, and
\* no other frame was written to it before that envelope.
C12_WelcomeOnceAndFirst ==
  /\ \A w \in Live : inbox[w].welcomes = 1 /\ inbox[w].early = 0
  /\ (last.op = "upgrade" /\ last.status = 101) =>
        sent[last.ws] = <<welcomeFrame(sess[last.ws].peerId,
                                       sess[last.ws].namespace,
                                       sess[last.ws].room, now)>>

\* a session that has its welcome is relayed a frame of another session
C12_Witness ==
  /\ last.op = "message"
  /\ \E w \in Live \ {last.ws} :
       /\ Len(sent[w]) = 1 /\ IsRelayFrame(sent[w][1])
       /\ inbox[w].welcomes = 1
       /\ sess[w].namespace # sess[w].room

(***************************************************************************)
(* Room hub and GET /bootstrap: no digest, one client address, rooms with  *)
(* and without the separator in their names.                               *)
(***************************************************************************)
HubRooms == {<<"a::b", "c">>, <<"a", "b::c">>, <<"n", "r">>}
\* the rooms asked about: those above, and the defaults global / public
HubQueries == HubRooms \cup {<<"", "">>}

InitHub == InitWith({""})

HubUpgrade ==
  /\ Events < HubEvents
  /\ \E r \in HubRooms :
       Upgrade(Request("/signal", Direct, NoAuth, "", r[1], r[2], ""),
               GenPeerId, TRUE)

HubBeginClose == \E ws \in SessIds : BeginClose(ws)

HubClose == \E ws \in SessIds : Close(ws)

HubBootstrap == \E q \in HubQueries : HttpBootstrap(q[1], q[2])

NextHub == HubUpgrade \/ HubBeginClose \/ HubClose \/ HubBootstrap

SpecHub == InitHub /\ [][NextHub]_vars

\* C15: the room hub has no key whose member set is empty.
C15_NoEmptyBucket == \A k \in DOMAIN rooms : rooms[k] # {}

\* GET /bootstrap was answered for a room that has no bucket, after a
\* session of that room closed and while another room has members
C15_Witness ==
  /\ last.op = "bootstrap" /\ last.body.peers = 0
  /\ last.body.namespace = "n" /\ last.body.room = "r"
  /\ ~MapHas(rooms, roomKey("n", "r"))
  /\ metrics.wsConnectionsTotal >= 2
  /\ Cardinality(Live) = 1

\* the live sessions of one (namespace, room)
LiveIn(namespace, room) ==
  {w \in Live : sess[w].namespace = namespace /\ sess[w].room = room}

\* C16: GET /bootstrap for (namespace, room) answers peers = the number of
\* live sessions of that (namespace, room), 0 when there is none.
C16_BootstrapCountsRoom ==
  (last.op = "bootstrap") =>
     last.body.peers
       = Cardinality(LiveIn(last.body.namespace, last.body.room))

(***************************************************************************)
(* Connection limit: a digest may be configured, two client addresses.     *)
(***************************************************************************)
S3cretHash == hashToken("s3cret")

InitConn == InitWith({"", S3cretHash})

ConnUpgrade ==
  /\ Events < ConnEvents
  /\ \E path \in {"/signal", "/other"}, origin \in {Direct, Proxied},
        tok \in {"s3cret", "wrong"} :
       Upgrade(Request(path, origin, NoAuth, tok, "n", "r", "A"),
               GenPeerId, TRUE)

ConnMessage ==
  /\ Events < ConnEvents
  /\ \E ws \in SessIds : Message(ws, Offer)

ConnBeginClose == \E ws \in SessIds : BeginClose(ws)

ConnClose == \E ws \in SessIds : Close(ws)

NextConn == ConnUpgrade \/ ConnMessage \/ ConnBeginClose \/ ConnClose

SpecConn == InitConn /\ [][NextConn]_vars

\* connectionsByIp.get(ip) || 0
ConnCount(conn, ip) == IF MapHas(conn, ip) THEN conn[ip] ELSE 0

\* the live sessions of one client address
LiveFrom(ip) == {w \in Live : sess[w].clientIp = ip}

\* C5: the connection counter of every address equals the number of live
\* sessions of that address, and an address without live sessions has no
\* entry.
C5_CounterIsLiveSessions ==
  /\ \A ip \in DOMAIN connectionsByIp :
        connectionsByIp[ip] = Cardinality(LiveFrom(ip)) /\ LiveFrom(ip) # {}
  /\ \A w \in Live : MapHas(connectionsByIp, sess[w].clientIp)

\* C7: an upgrade on /signal from an address whose counter is N gets past
\* the connection check iff N < MAX_CONNECTIONS_PER_IP; a rejected one is
\* answered 429, creates no session, leaves the counter at N and adds
\* exactly 1 to wsRateLimitedTotal.
C7_ConnectionCheck ==
  [][(last'.op = "upgrade" /\ last'.status # 404) =>
       LET N == ConnCount(connectionsByIp, last'.ip)
       IN /\ (last'.status = 429) <=> ~(N < MAX_CONNECTIONS_PER_IP)
          /\ (last'.status # 429) =>
                ConnCount(connectionsByIp', last'.ip) = N + 1
          /\ (last'.status = 429) =>
                /\ sess' = sess /\ rooms' = rooms /\ peers' = peers
                /\ rendezvous' = rendezvous
                /\ connectionsByIp' = connectionsByIp
                /\ sent' = NoFrames
                /\ metrics' = [metrics EXCEPT !.wsRateLimitedTotal = @ + 1]
    ]_vars

\* an upgrade was answered 429 while another address is below the cap
C7_Witness ==
  /\ last.op = "upgrade" /\ last.status = 429
  /\ ConnCount(connectionsByIp, last.ip) = MAX_CONNECTIONS_PER_IP
  /\ metrics.wsRateLimitedTotal = 1

\* C11: with a digest configured, an upgrade to /signal from an address
\* that has fewer live sessions than the cap is answered 401 when its token
\* does not match, adding exactly 1 to wsAuthFailuresTotal and leaving the
\* sessions, the room hub, the registry, wsConnectionsTotal and
\* wsActiveConnections as they were, and is admitted when its token matches.
C11_AuthRejection ==
  [][(/\ last'.op = "upgrade" /\ last'.status # 404
      /\ SHARED_TOKEN_HASH # ""
      /\ Cardinality(LiveFrom(last'.ip)) < MAX_CONNECTIONS_PER_IP) =>
       IF hashToken(last'.token) = SHARED_TOKEN_HASH
       THEN last'.status = 101 /\ sess'[last'.ws].readyState = "OPEN"
       ELSE /\ last'.status = 401
            /\ metrics' = [metrics EXCEPT !.wsAuthFailuresTotal = @ + 1]
            /\ sess' = sess /\ rooms' = rooms /\ peers' = peers
            /\ rendezvous' = rendezvous
    ]_vars

\* the registry holds a record for (namespace, room, peerId)
HasRecord(reg, namespace, room, peerId) ==
  /\ MapHas(reg, roomKey(namespace, room))
  /\ roomMapHas(reg[roomKey(namespace, room)], peerId)

\* C13: the close of a session takes it out of every bucket, leaves no
\* registry record for its (namespace, room, peerId), lowers the counter of
\* its address by 1 and the active gauge by 1 (not below zero), and touches
\* no other session and no other address; no other step removes a session
\* from a bucket or lowers a counter or the gauge, so the effects happen
\* once for every session that closes.
C13_TeardownOnce ==
  [][/\ (last'.op = "close") =>
          LET ws == last'.ws
              me == sess[ws]
          IN /\ ws \in Live /\ ws \notin Live'
             /\ \A k \in DOMAIN rooms' : ws \notin rooms'[k]
             /\ ~HasRecord(rendezvous', me.namespace, me.room, me.peerId)
             /\ ConnCount(connectionsByIp', me.clientIp)
                  = ConnCount(connectionsByIp, me.clientIp) - 1
             /\ metrics'.wsActiveConnections
                  = IF metrics.wsActiveConnections > 0
                    THEN metrics.wsActiveConnections - 1 ELSE 0
             /\ \A ip \in DOMAIN connectionsByIp \ {me.clientIp} :
                  ConnCount(connectionsByIp', ip) = connectionsByIp[ip]
             /\ \A w \in Live \ {ws} :
                  /\ sess'[w] = sess[w]
                  /\ \A k \in DOMAIN rooms :
                       w \in rooms[k] => MapHas(rooms', k) /\ w \in rooms'[k]
     /\ (last'.op # "close") =>
          /\ Live \subseteq Live'
          /\ \A k \in DOMAIN rooms :
               MapHas(rooms', k) /\ rooms[k] \subseteq rooms'[k]
          /\ \A ip \in DOMAIN connectionsByIp :
               ConnCount(connectionsByIp', ip) >= connectionsByIp[ip]
          /\ metrics'.wsActiveConnections >= metrics.wsActiveConnections
    ]_vars

\* a session closed while another session of the same address stays live
C13_Witness ==
  /\ last.op = "close"
  /\ LiveFrom(last.ip) # {}
  /\ ConnCount(connectionsByIp, last.ip) >= 1
  /\ metrics.wsActiveConnections >= 1

(***************************************************************************)
(* Message limit: no digest, two client addresses, a moving clock.         *)
(***************************************************************************)
InitRate == InitWith({""})

RateUpgrade ==
  /\ Events < RateEvents
  /\ \E origin \in {Direct, Proxied} :
       Upgrade(Request("/signal", origin, NoAuth, "", "n", "r", ""),
               GenPeerId, TRUE)

RateMessage ==
  /\ Events < RateEvents
  /\ \E ws \in SessIds, raw \in {Offer, Heartbeat} : Message(ws, raw)

RateClose == \E ws \in SessIds : Close(ws)

NextRate == RateUpgrade \/ RateMessage \/ RateClose \/ Tick

SpecRate == InitRate /\ [][NextRate]_vars

\* the frames of an address that arrived at or after clock reading t
ArrivedSince(arr, ip, t) ==
  IF MapHas(arr, ip)
  THEN Cardinality({i \in 1..Len(arr[ip]) : arr[ip][i] >= t})
  ELSE 0

\* the last frame was answered with the rate_limited error and dropped
Rejected == /\ last.op = "message"
            /\ sent[last.ws] = <<errorFrame("rate_limited")>>

\* C8: with M frames of an address (from any of its sessions) already in
\* the current window, the next frame is rejected iff M >= the maximum; a
\* rejected frame writes exactly one rate_limited error frame, to the
\* offending session, adds exactly 1 to wsRateLimitedTotal and changes
\* nothing else but the limiter's window; an accepted frame adds no
\* rejection.
C8_MessageCheck ==
  [][(last'.op = "message") =>
       LET ip == last'.ip
           M == ArrivedSince(arrivals, ip, rateLimitByIp'[ip].windowStart)
       IN /\ Rejected' <=> (M >= MAX_MESSAGES_PER_MINUTE)
          /\ Rejected' =>
                /\ sent' = [NoFrames EXCEPT
                             ![last'.ws] = <<errorFrame("rate_limited")>>]
                /\ metrics' = [metrics EXCEPT !.wsRateLimitedTotal = @ + 1]
                /\ UNCHANGED <<sess, rooms, peers, rendezvous,
                               connectionsByIp, crashed>>
          /\ ~Rejected' =>
                /\ metrics'.wsRateLimitedTotal = metrics.wsRateLimitedTotal
                /\ metrics'.wsMessagesTotal = metrics.wsMessagesTotal + 1
    ]_vars

\* the second rejection in one window: max + 2 frames of one address have
\* arrived in it and the last two were rejected
C8_Witness ==
  /\ Rejected
  /\ metrics.wsRateLimitedTotal = 2
  /\ Len(arrivals[last.ip]) = MAX_MESSAGES_PER_MINUTE + 2
  /\ ArrivedSince(arrivals, last.ip, rateLimitByIp[last.ip].windowStart)
       = MAX_MESSAGES_PER_MINUTE + 2

\* C9: the window of an address starts at its first counted frame and is
\* replaced by a fresh one, in which the arriving frame is the first,
\* exactly when a frame arrives at now >= windowStart + 60000; a
\* rate-limited address is accepted again on a frame iff that frame
\* arrives at or after windowStart + 60000.
C9_FixedWindow ==
  [][(last'.op = "message") =>
       LET ip == last'.ip
           new == rateLimitByIp'[ip]
       IN IF ~MapHas(rateLimitByIp, ip)
          THEN new.windowStart = now /\ new.count = 1
          ELSE LET old == rateLimitByIp[ip]
               IN /\ (now >= old.windowStart + WINDOW_MS) =>
                        new.windowStart = now /\ new.count = 1
                  /\ (now < old.windowStart + WINDOW_MS) =>
                        /\ new.windowStart = old.windowStart
                        /\ new.count >= old.count
                  /\ (old.count >= MAX_MESSAGES_PER_MINUTE) =>
                        (~Rejected' <=> now >= old.windowStart + WINDOW_MS)
    ]_vars

\* an address that had used up its window is accepted again on a frame
\* that arrives exactly 60000 ms after the window started
C9_Witness ==
  /\ last.op = "message" /\ last.allowed
  /\ rateLimitByIp[last.ip].windowStart = now
  /\ rateLimitByIp[last.ip].count = 1
  /\ ArrivedSince(arrivals, last.ip, now - WINDOW_MS)
       = MAX_MESSAGES_PER_MINUTE + 1
  /\ ArrivedSince(arrivals, last.ip, now - WINDOW_MS + 1) = 1

(***************************************************************************)
(* Credentials: every digest setting, tokens in the header and the query.  *)
(***************************************************************************)
\* SIGNAL_TOKEN_SHA256 unset, the digest of "s3cret", the digest of the
\* empty string, and a value that is no SHA-256 digest
Digests == {"", S3cretHash, hashToken(""), "abc123"}

RegisterBody == RawObject([namespace |-> Str("n"), room |-> Str("r"),
                           peerId |-> Str("p"), ttlMs |-> Num("50")])

InitAuth == InitWith(Digests)

AuthUpgrade ==
  /\ Events < AuthEvents
  /\ \E auth \in {NoAuth, Bearer("s3cret"), Bearer("")},
        tok \in {"", "s3cret", "wrong"} :
       Upgrade(Request("/signal", Direct, auth, tok, "n", "r", "A"),
               GenPeerId, TRUE)

AuthRegister ==
  /\ Events < AuthEvents
  /\ \E auth \in {NoAuth, Bearer("s3cret"), Bearer("")},
        tok \in {"", "s3cret", "wrong"}, body \in {RegisterBody, RawText} :
       HttpRegister(auth, tok, body)

\* GET /rendezvous/discover?namespace=n&room=r: the handler reads neither
\* the Authorization header nor the token parameter
AuthDiscover ==
  /\ Events < AuthEvents
  /\ HttpDiscover("n", "r", "")

AuthClose == \E ws \in SessIds : Close(ws)

NextAuth == AuthUpgrade \/ AuthRegister \/ AuthDiscover \/ AuthClose

SpecAuth == InitAuth /\ [][NextAuth]_vars

\* no digest is configured, or the token is non-empty and its SHA-256 hex
\* digest is the configured digest
Verifies(tok) ==
  \/ SHARED_TOKEN_HASH = ""
  \/ tok # "" /\ hashToken(tok) = SHARED_TOKEN_HASH

\* C10: a request that reaches the credential check, at /signal or at
\* POST /rendezvous/register, passes it iff no digest is configured or its
\* token is non-empty and hashes to the configured digest; with a digest
\* configured no empty or non-matching token is accepted.
C10_VerifyIff ==
  /\ (last.op = "upgrade" /\ last.status \notin {404, 429}) =>
        ((last.status # 401) <=> Verifies(last.token))
  /\ (last.op = "register") =>
        ((last.status # 401) <=> Verifies(last.token))
  /\ (/\ SHARED_TOKEN_HASH # ""
      /\ last.op \in {"upgrade", "register"}
      /\ last.status \in {101, 200}) =>
        last.token # "" /\ hashToken(last.token) = SHARED_TOKEN_HASH

\* with the digest of "s3cret" configured, a session was admitted after
\* another request was turned away
C10_Witness ==
  /\ SHARED_TOKEN_HASH = S3cretHash
  /\ last.op = "upgrade" /\ last.status = 101 /\ last.token = "s3cret"
  /\ metrics.wsAuthFailuresTotal >= 1

(***************************************************************************)
(* Rendezvous registry: no digest, one client address, a moving clock,     *)
(* records written by sessions and by POST /rendezvous/register.           *)
(***************************************************************************)
\* bodies of POST /rendezvous/register for room (n, r): peer p with ttlMs
\* absent, zero, negative and positive, and peer q with ttlMs absent
RegBody(peerId, ttl) ==
  RawObject([namespace |-> Str("n"), room |-> Str("r"),
             peerId |-> Str(peerId), ttlMs |-> ttl])

RegBodies ==
  {RawObject([namespace |-> Str("n"), room |-> Str("r"), peerId |-> Str(id)]) :
     id \in {"p", "q"}}
  \cup {RegBody("p", Num(ttl)) : ttl \in {"0", "-5", "50"}}

InitRegistry == InitWith({""})

RegUpgrade ==
  /\ Events < RegEvents
  /\ Upgrade(Request("/signal", Direct, NoAuth, "", "n", "r", "p"),
             GenPeerId, TRUE)

RegClose == \E ws \in SessIds : Close(ws)

RegRegister == \E body \in RegBodies : HttpRegister(NoAuth, "", body)

RegDiscover ==
  \E q \in {<<"n", "r">>, <<"", "">>}, limit \in {"", "1", "0", "-1"} :
    HttpDiscover(q[1], q[2], limit)

NextRegistry ==
  RegUpgrade \/ RegClose \/ RegRegister \/ RegDiscover \/ Tick \/ Prune

SpecRegistry == InitRegistry /\ [][NextRegistry]_vars

\* the records for one peer id in what discover returned
RecordsOf(found, peerId) == {i \in 1..Len(found) : found[i].peerId = peerId}

\* C17: right after a record for p is registered in (namespace, room), by
\* POST /rendezvous/register or by the admission of a session, discover for
\* that room with a limit above the size of the room returns exactly one
\* record for p; right after the close of a session has called removePeer,
\* discover returns no record for its peer id.
C17_RoundTrip ==
  [][/\ (last'.op = "register" /\ last'.status = 200) =>
          Cardinality(RecordsOf(discover(rendezvous', last'.body.namespace,
                                         last'.body.room, DEFAULT_LIMIT, now'),
                                last'.body.peerId)) = 1
     /\ (last'.op = "upgrade" /\ last'.status = 101) =>
          LET me == sess'[last'.ws]
          IN Cardinality(RecordsOf(discover(rendezvous', me.namespace, me.room,
                                            DEFAULT_LIMIT, now'),
                                   me.peerId)) = 1
     /\ (last'.op = "close") =>
          LET me == sess[last'.ws]
          IN RecordsOf(discover(rendezvous', me.namespace, me.room,
                                DEFAULT_LIMIT, now'),
                       me.peerId) = {}
    ]_vars

\* the record a successful POST /rendezvous/register with this body asks
\* for at clock reading t
Asked(raw, t) ==
  LET b == JSONparse(raw)
      ttlMs == IF Truthy(Get(b, "ttlMs")) THEN Number(Get(b, "ttlMs"))
               ELSE DEFAULT_TTL_MS
  IN [peerId |-> b.peerId.v, namespace |-> b.namespace.v, room |-> b.room.v,
      addresses |-> <<>>, metadata |-> EmptyMap,
      seenAt |-> t, expiresAt |-> t + ttlMs]

\* the record the admission of session me asks for at clock reading t
AskedFor(me, t) ==
  [peerId |-> me.peerId, namespace |-> me.namespace, room |-> me.room,
   addresses |-> <<me.clientIp>>, metadata |-> [transport |-> "websocket"],
   seenAt |-> t, expiresAt |-> t + SESSION_TTL_MS]

\* after registering rec, its room has one record for rec.peerId, which is
\* rec, and the other records of the registry are as before
Replaced(before, after, rec) ==
  LET key == roomKey(rec.namespace, rec.room)
  IN /\ MapHas(after, key)
     /\ Cardinality(RecordsOf(after[key], rec.peerId)) = 1
     /\ roomMapGet(after[key], rec.peerId) = rec
     /\ removePeer(after, rec.namespace, rec.room, rec.peerId)
          = removePeer(before, rec.namespace, rec.room, rec.peerId)

\* C18: a register of a peer id, whether or not its room already holds a
\* record for it, leaves exactly one record for it in that room, with the
\* seenAt, expiresAt, addresses and metadata of this call, and leaves every
\* other record alone.
C18_ReRegisterReplaces ==
  [][/\ (last'.op = "register" /\ last'.status = 200) =>
          Replaced(rendezvous, rendezvous', Asked(last'.raw, now'))
     /\ (last'.op = "upgrade" /\ last'.status = 101) =>
          Replaced(rendezvous, rendezvous', AskedFor(sess'[last'.ws], now'))
    ]_vars

\* p was registered before q and again after q: it is still the first entry
\* of the room and has the later seenAt
C18_Witness ==
  /\ last.op = "register" /\ last.status = 200 /\ last.body.peerId = "p"
  /\ MapHas(rendezvous, roomKey("n", "r"))
  /\ Len(rendezvous[roomKey("n", "r")]) = 2
  /\ rendezvous[roomKey("n", "r")][1].peerId = "p"
  /\ rendezvous[roomKey("n", "r")][1].seenAt
       > rendezvous[roomKey("n", "r")][2].seenAt

\* the clock readings pruneExpired is tried at
PruneTimes == {0, 50, TickMs, 2 * TickMs, MaxNow}

\* what pruneExpired(t) promises about the registry it leaves
PrunePost(before, after, t) ==
  /\ \A key \in DOMAIN after :
        /\ Len(after[key]) > 0
        /\ \A i \in 1..Len(after[key]) : after[key][i].expiresAt > t
        /\ MapHas(before, key)
        /\ \A i \in 1..Len(after[key]) :
              \E j \in 1..Len(before[key]) : before[key][j] = after[key][i]
  /\ \A key \in DOMAIN before :
        \A j \in 1..Len(before[key]) :
          before[key][j].expiresAt > t =>
            /\ MapHas(after, key)
            /\ \E i \in 1..Len(after[key]) : after[key][i] = before[key][j]

\* C19: pruneExpired(t) leaves only records with expiresAt > t, keeps every
\* record that had expiresAt > t as it was, and leaves no room without
\* records: for the pruner and discover at the clock reading of the call,
\* and for the function at every clock reading of the model.
C19_PrunePostcondition ==
  [][/\ (last'.op \in {"prune", "discover"}) =>
          PrunePost(rendezvous, rendezvous', now')
     /\ \A t \in PruneTimes :
          PrunePost(rendezvous, pruneExpired(rendezvous, t), t)
    ]_vars

\* the pruner ran and removed the record of a live session, whose
\* expiresAt is the clock reading, and kept the record of q
C19_Witness ==
  /\ last.op = "prune"
  /\ metrics.wsConnectionsTotal = 1 /\ Live # {}
  /\ now = SESSION_TTL_MS
  /\ MapHas(rendezvous, roomKey("n", "r"))
  /\ ~roomMapHas(rendezvous[roomKey("n", "r")], "p")
  /\ roomMapHas(rendezvous[roomKey("n", "r")], "q")

\* C20: every record of the registry has expiresAt > seenAt.
C20_ExpiresAfterSeen ==
  \A key \in DOMAIN rendezvous :
    \A i \in 1..Len(rendezvous[key]) :
      rendezvous[key][i].expiresAt > rendezvous[key][i].seenAt

\* the limit discover was called with by the request last.raw stands for
AskedLimit == Number(Str(IF last.raw.fields.limit.v # ""
                         THEN last.raw.fields.limit.v ELSE "32"))

\* C21: what GET /rendezvous/discover answers at clock reading now holds
\* only records of the room asked for with expiresAt > now, latest seenAt
\* first, and at most max(limit, 0) of them.
C21_DiscoverAnswer ==
  (last.op = "discover") =>
     LET found == last.body.peers
     IN /\ \A i \in 1..Len(found) :
             /\ found[i].namespace = last.body.namespace
             /\ found[i].room = last.body.room
             /\ found[i].expiresAt > now
        /\ \A i, j \in 1..Len(found) :
             i < j => found[i].seenAt >= found[j].seenAt
        /\ Len(found) <= (IF AskedLimit > 0 THEN AskedLimit ELSE 0)

\* every record of the registry, with the key of its room
AllRecords(reg) ==
  UNION {{<<key, reg[key][i]>> : i \in 1..Len(reg[key])} : key \in DOMAIN reg}

\* C22: the removePeer of a closing session returns true iff the registry
\* held a record for its (namespace, room, peerId) right before, removes
\* that record and no other, and the registry never holds a room without
\* records.
C22_RemovePeer ==
  [][/\ (last'.op = "close") =>
          LET me == sess[last'.ws]
              key == roomKey(me.namespace, me.room)
              mine == {kr \in AllRecords(rendezvous) :
                         kr[1] = key /\ kr[2].peerId = me.peerId}
          IN /\ last'.removed <=> (mine # {})
             /\ AllRecords(rendezvous') = AllRecords(rendezvous) \ mine
             /\ \A k \in DOMAIN rendezvous' :
                  \A i, j \in 1..Len(rendezvous'[k]) :
                    i < j =>
                      \E a, b \in 1..Len(rendezvous[k]) :
                        /\ a < b
                        /\ rendezvous[k][a] = rendezvous'[k][i]
                        /\ rendezvous[k][b] = rendezvous'[k][j]
     /\ \A k \in DOMAIN rendezvous' : Len(rendezvous'[k]) > 0
    ]_vars

\* a close removed the record of its session and left the record of q in
\* the room
C22_Witness ==
  /\ last.op = "close" /\ last.removed
  /\ MapHas(rendezvous, roomKey("n", "r"))
  /\ roomMapHas(rendezvous[roomKey("n", "r")], "q")
  /\ ~roomMapHas(rendezvous[roomKey("n", "r")], "p")

(***************************************************************************)
(* Frames: no digest, one client address, one room, every kind of frame.   *)
(***************************************************************************)
FrameInputs == {Offer, Heartbeat, Telemetry, TelemetryBare, TelemetryCarrier,
                RawText, RawNull, RawScalar}

InitFrames == InitWith({""})

FrameUpgrade ==
  /\ Events < FrameEvents
  /\ \E pid \in {"A", "B"} :
       Upgrade(Request("/signal", Direct, NoAuth, "", "n", "r", pid),
               GenPeerId, TRUE)

FrameMessage ==
  /\ Events < FrameEvents
  /\ \E ws \in SessIds, raw \in FrameInputs : Message(ws, raw)

FrameClose == \E ws \in SessIds : Close(ws)

NextFrames == FrameUpgrade \/ FrameMessage \/ FrameClose

SpecFrames == InitFrames /\ [][NextFrames]_vars

\* the step handles a frame that passed the rate check and is a JSON object
\* whose type is the given one
Handles(type) ==
  /\ last'.op = "message" /\ last'.allowed
  /\ last'.raw.kind = "object"
  /\ "type" \in DOMAIN last'.raw.fields
  /\ last'.raw.fields.type = Str(type)

\* C23: a frame of type heartbeat that passed the rate check writes exactly
\* one frame, a heartbeat-ack with the server's time, to its sender and none
\* to any other session; it changes no session, room, registry record or
\* connection counter, and of the metrics only wsMessagesTotal, by 1; of
\* the message windows only the one of the sender's address changes.
C23_HeartbeatAck ==
  [][Handles("heartbeat") =>
       /\ \A w \in SessIds \ {last'.ws} : sent'[w] = <<>>
       /\ Len(sent'[last'.ws]) = 1
       /\ DOMAIN sent'[last'.ws][1] = {"type", "now"}
       /\ sent'[last'.ws][1].type = Str("heartbeat-ack")
       /\ sent'[last'.ws][1].now = nowIso(now)
       /\ sess' = sess /\ rooms' = rooms /\ peers' = peers
       /\ rendezvous' = rendezvous /\ connectionsByIp' = connectionsByIp
       /\ metrics' = [metrics EXCEPT !.wsMessagesTotal = @ + 1]
       /\ \A ip \in (DOMAIN rateLimitByIp) \ {last'.ip} :
            MapHas(rateLimitByIp', ip) /\ rateLimitByIp'[ip] = rateLimitByIp[ip]
       /\ ~crashed'
    ]_vars

\* a heartbeat was answered while another session with another peer id is
\* open in the sender's room
C23_Witness ==
  /\ last.op = "message" /\ last.allowed /\ last.raw = Heartbeat
  /\ sent[last.ws] = <<heartbeatAck(now)>>
  /\ \E w \in Live \ {last.ws} :
       /\ sess[w].readyState = "OPEN"
       /\ sess[w].peerId # sess[last.ws].peerId
       /\ sess[w].room = sess[last.ws].room

\* the value of a labeled counter for one label, 0 when it has no sample
Count(map, key) == IF MapHas(map, key) THEN map[key] ELSE 0

\* after is before with the labels of `keys` incremented by 1
Incremented(before, after, keys) ==
  /\ DOMAIN after = (DOMAIN before) \cup keys
  /\ \A k \in DOMAIN after :
        after[k] = Count(before, k) + (IF k \in keys THEN 1 ELSE 0)

\* field k of the frame is present and truthy
Present(k) ==
  k \in DOMAIN last'.raw.fields /\ Truthy(last'.raw.fields[k])

\* field k of the frame as a label, "unknown" when it is not present
Label(k) == IF Present(k) THEN last'.raw.fields[k].v ELSE "unknown"

\* C24: a frame of type telemetry that passed the rate check writes no
\* frame to any session; it adds 1 to the iceState counter of its iceState
\* (unknown when absent), to the failureReason counter of its failureReason
\* only when present, to relayUsageTotal only when relayUsed is truthy, and
\* to the region::carrier counter only when region or carrier is present,
\* the missing one written unknown; apart from wsMessagesTotal + 1 no other
\* metric changes.
C24_Telemetry ==
  [][Handles("telemetry") =>
       /\ sent' = NoFrames
       /\ Incremented(metrics.iceState, metrics'.iceState,
                      {Str(Label("iceState"))})
       /\ Incremented(metrics.failureReason, metrics'.failureReason,
                      IF Present("failureReason")
                      THEN {last'.raw.fields.failureReason} ELSE {})
       /\ metrics'.relayUsageTotal
            = metrics.relayUsageTotal + (IF Present("relayUsed") THEN 1 ELSE 0)
       /\ Incremented(metrics.byRegionCarrier, metrics'.byRegionCarrier,
                      IF Present("region") \/ Present("carrier")
                      THEN {Label("region") \o "::" \o Label("carrier")}
                      ELSE {})
       /\ metrics'.wsMessagesTotal = metrics.wsMessagesTotal + 1
       /\ metrics'.wsConnectionsTotal = metrics.wsConnectionsTotal
       /\ metrics'.wsActiveConnections = metrics.wsActiveConnections
       /\ metrics'.wsAuthFailuresTotal = metrics.wsAuthFailuresTotal
       /\ metrics'.wsRateLimitedTotal = metrics.wsRateLimitedTotal
       /\ ~crashed'
    ]_vars

\* telemetry with a carrier and no region, relayUsed false, was counted
\* while another session with another peer id is open in the sender's room
C24_Witness ==
  /\ last.op = "message" /\ last.allowed /\ last.raw = TelemetryCarrier
  /\ Count(metrics.byRegionCarrier, "unknown::kt") = 1
  /\ Count(metrics.iceState, Str("connected")) = 1
  /\ metrics.relayUsageTotal = 0 /\ metrics.failureReason = EmptyMap
  /\ \E w \in Live \ {last.ws} :
       /\ sess[w].readyState = "OPEN"
       /\ sess[w].peerId # sess[last.ws].peerId

\* C25: whatever frame a session sends (text that is not JSON, or a JSON
\* value that is no object), the handler returns: the process keeps
\* serving, the sender and every other session stay as they were, and a
\* frame that does not parse, once past the rate check, writes exactly one
\* invalid_json error frame to its sender and nothing to anybody else.
C25_MalformedRecovered ==
  [][(last'.op = "message") =>
       /\ ~crashed'
       /\ sess' = sess /\ rooms' = rooms /\ peers' = peers
       /\ (last'.allowed /\ last'.raw.kind = "text") =>
            sent' = [NoFrames EXCEPT
                       ![last'.ws] = <<[type |-> Str("error"),
                                        code |-> Str("invalid_json")]>>]
    ]_vars

(***************************************************************************)
(* Order of delivery: no digest, one room, two peer ids, the order of      *)
(* frames recorded.                                                        *)
(***************************************************************************)
InitOrder == InitState({""}, TRUE)

OrderUpgrade ==
  /\ Events < OrderEvents
  /\ \E pid \in {"A", "B"} :
       Upgrade(Request("/signal", Direct, NoAuth, "", "n", "r", pid),
               GenPeerId, TRUE)

OrderMessage ==
  /\ Events < OrderEvents
  /\ \E ws \in SessIds, raw \in {Offer, Heartbeat} : Message(ws, raw)

OrderClose == \E ws \in SessIds : Close(ws)

NextOrder == OrderUpgrade \/ OrderMessage \/ OrderClose

SpecOrder == InitOrder /\ [][NextOrder]_vars

C28_UniquePeerIds ==
  \A w1, w2 \in Live : w1 # w2 => sess[w1].peerId # sess[w2].peerId

\* C29: POST /rendezvous/register changes the registry only when the token
\* verifies.  It answers 401 exactly when the token does not verify, and then
\* auth_failures_total grows by one and the registry is unchanged; with a
\* verifying token and a body that is not valid JSON it answers 400 and the
\* registry and the counters are unchanged.  GET /rendezvous/discover is
\* answered 200 whatever digest is configured and counts no auth failure.
C29_RegisterGuarded ==
  [][/\ last'.op = "register" =>
          /\ (last'.status = 401) <=> ~Verifies(last'.token)
          /\ last'.status = 401 =>
                /\ rendezvous' = rendezvous
                /\ metrics' = [metrics EXCEPT !.wsAuthFailuresTotal = @ + 1]
          /\ (Verifies(last'.token) /\ last'.raw = RawText) =>
                last'.status = 400
          /\ last'.status = 400 =>
                rendezvous' = rendezvous /\ metrics' = metrics
          /\ rendezvous' # rendezvous =>
                last'.status = 200 /\ Verifies(last'.token)
     /\ last'.op = "discover" =>
          last'.status = 200 /\ metrics' = metrics]_vars

\* with the digest of "s3cret" configured and a record in the registry, a
\* registration with the wrong token was answered 401
C29_Witness ==
  /\ SHARED_TOKEN_HASH = S3cretHash
  /\ last.op = "register" /\ last.status = 401 /\ last.token = "wrong"
  /\ last.raw = RegisterBody
  /\ rendezvous # EmptyMap
  /\ metrics.wsAuthFailuresTotal = 1

\* every label of the labeled counter keeps a sample that is not smaller
NotDecreased(before, after) ==
  \A k \in DOMAIN before : MapHas(after, k) /\ after[k] >= before[k]

\* C30: no event decreases connections_total, messages_total,
\* auth_failures_total, rate_limited_total or relay_usage_total, and no
\* event removes or decreases a sample of a labeled counter (iceState,
\* failureReason, region::carrier).  active_connections is not bound by
\* this.
C30_CountersMonotonic ==
  [][/\ metrics'.wsConnectionsTotal >= metrics.wsConnectionsTotal
     /\ metrics'.wsMessagesTotal >= metrics.wsMessagesTotal
     /\ metrics'.wsAuthFailuresTotal >= metrics.wsAuthFailuresTotal
     /\ metrics'.wsRateLimitedTotal >= metrics.wsRateLimitedTotal
     /\ metrics'.relayUsageTotal >= metrics.relayUsageTotal
     /\ NotDecreased(metrics.iceState, metrics'.iceState)
     /\ NotDecreased(metrics.failureReason, metrics'.failureReason)
     /\ NotDecreased(metrics.byRegionCarrier, metrics'.byRegionCarrier)]_vars

\* a session closed and the gauge went down to 0, after connections,
\* messages, a rate-limited frame and telemetry under two iceState labels
\* were counted
C30_Witness ==
  /\ last.op = "close"
  /\ metrics.wsActiveConnections = 0
  /\ metrics.wsConnectionsTotal >= 1
  /\ metrics.wsRateLimitedTotal >= 1
  /\ metrics.relayUsageTotal >= 1
  /\ Cardinality(DOMAIN metrics.iceState) >= 2
  /\ metrics.byRegionCarrier # EmptyMap

\* C31: an upgrade whose token verifies is turned away with 429 only when
\* its address has as many live sessions as the cap allows: upgrades that
\* were rejected or did not complete hold no connection slot.
C31_RejectedHoldNoSlot ==
  (last.op = "upgrade" /\ last.status = 429 /\ Verifies(last.token)) =>
     Cardinality(LiveFrom(last.ip)) >= MAX_CONNECTIONS_PER_IP

\* C32: an upgrade to /signal from an address whose connection counter (and
\* so also one whose number of live sessions) is at the cap is answered 429
\* whatever its token, adding 1 to wsRateLimitedTotal and nothing to
\* wsAuthFailuresTotal; 429 is answered in no other case, and 401 is
\* answered only to an upgrade that was below the cap, took a connection
\* slot and carried a token that does not verify.
C32_CapBeforeCredential ==
  [][(last'.op = "upgrade" /\ last'.status # 404) =>
       LET atCap == ConnCount(connectionsByIp, last'.ip)
                      >= MAX_CONNECTIONS_PER_IP
       IN /\ atCap =>
               /\ last'.status = 429
               /\ metrics' = [metrics EXCEPT !.wsRateLimitedTotal = @ + 1]
          /\ Cardinality(LiveFrom(last'.ip)) >= MAX_CONNECTIONS_PER_IP =>
               atCap
          /\ last'.status = 429 => atCap
          /\ last'.status = 401 =>
               /\ ~atCap
               /\ ~Verifies(last'.token)
               /\ ConnCount(connectionsByIp', last'.ip)
                    = ConnCount(connectionsByIp, last'.ip) + 1
    ]_vars

\* with the digest of "s3cret" configured, an upgrade with the wrong token
\* from an address with cap-many live sessions was answered 429 and no auth
\* failure has been counted
C32_Witness ==
  /\ SHARED_TOKEN_HASH = S3cretHash
  /\ last.op = "upgrade" /\ last.status = 429 /\ last.token = "wrong"
  /\ Cardinality(LiveFrom(last.ip)) = MAX_CONNECTIONS_PER_IP
  /\ metrics.wsAuthFailuresTotal = 0
  /\ metrics.wsRateLimitedTotal = 1

\* the smaller of two numbers
Min(a, b) == IF a <= b THEN a ELSE b

\* C33: after every step the count of every address's window is at most
\* the maximum and equals the number of frames of the address that arrived
\* since the window started, capped at the maximum; every frame that is not
\* rejected (it is parsed and dispatched) adds 1 to the count of the window
\* it arrives in, so no window sees more than the maximum dispatched,
\* whichever sessions of the address the frames come from.
C33_CountWithinMaximum ==
  [][/\ \A ip \in DOMAIN rateLimitByIp' :
          LET b == rateLimitByIp'[ip]
          IN /\ b.count <= MAX_MESSAGES_PER_MINUTE
             /\ b.count = Min(ArrivedSince(arrivals', ip, b.windowStart),
                              MAX_MESSAGES_PER_MINUTE)
     /\ (last'.op = "message" /\ ~Rejected') =>
          LET ip == last'.ip
              before == IF /\ MapHas(rateLimitByIp, ip)
                           /\ now < rateLimitByIp[ip].windowStart + WINDOW_MS
                        THEN rateLimitByIp[ip].count ELSE 0
          IN /\ last'.allowed
             /\ rateLimitByIp'[ip].count = before + 1
    ]_vars

\* a frame was rejected with the window of its address full, in a window
\* that is not the address's first, the address having two open sessions
C33_Witness ==
  /\ Rejected
  /\ rateLimitByIp[last.ip].count = MAX_MESSAGES_PER_MINUTE
  /\ rateLimitByIp[last.ip].windowStart > 0
  /\ Cardinality({w \in LiveFrom(last.ip) : sess[w].readyState = "OPEN"}) = 2

(***************************************************************************)
(* Sessions that outlive their registry record: frames, the clock, the    *)
(* pruner, discover and /bootstrap.                                        *)
(***************************************************************************)
InitStale == InitWith({""})

StaleUpgrade ==
  /\ Events < StaleEvents
  /\ \E peerId \in {"A", "B"} :
       Upgrade(Request("/signal", Direct, NoAuth, "", "n", "r", peerId),
               GenPeerId, TRUE)

StaleMessage ==
  /\ Events < StaleEvents
  /\ \E ws \in SessIds, raw \in {Heartbeat, Offer} : Message(ws, raw)

StaleClose == \E ws \in SessIds : Close(ws)

StaleDiscover == HttpDiscover("n", "r", "")

StaleBootstrap == HttpBootstrap("n", "r")

NextStale ==
  \/ StaleUpgrade \/ StaleMessage \/ StaleClose \/ StaleDiscover
  \/ StaleBootstrap \/ Tick \/ Prune

SpecStale == InitStale /\ [][NextStale]_vars

\* the registry holds a record for the session's (namespace, room, peerId)
\* that has not expired at clock reading t
Fresh(reg, me, t) ==
  /\ HasRecord(reg, me.namespace, me.room, me.peerId)
  /\ roomMapGet(reg[roomKey(me.namespace, me.room)], me.peerId).expiresAt > t

\* C34: the admission of a session writes its record with seenAt = now and
\* expiresAt = now + 60 s; no frame (heartbeat or other) changes the
\* registry, and the record of a session that stays live goes from expired
\* or absent to unexpired only by an admission or a POST
\* /rendezvous/register, never by a frame, the clock, the pruner or a
\* query.  A live session whose record has expired is not in the answer of
\* discover and has no record after a prune, while /bootstrap still counts
\* it and its bucket still holds it.
C34_RecordNotRefreshed ==
  [][/\ last'.op = "message" => rendezvous' = rendezvous
     /\ (last'.op = "upgrade" /\ last'.status = 101) =>
          LET me == sess'[last'.ws]
              rec == roomMapGet(rendezvous'[roomKey(me.namespace, me.room)],
                                me.peerId)
          IN rec.seenAt = now /\ rec.expiresAt = now + SESSION_TTL_MS
     /\ \A w \in Live :
          (/\ sess'[w] = sess[w]
           /\ ~Fresh(rendezvous, sess[w], now)
           /\ Fresh(rendezvous', sess'[w], now')) =>
             last'.op \in {"upgrade", "register"}
     /\ last'.op = "discover" =>
          \A w \in Live :
            (/\ sess[w].namespace = last'.body.namespace
             /\ sess[w].room = last'.body.room
             /\ ~Fresh(rendezvous, sess[w], now)) =>
               RecordsOf(last'.body.peers, sess[w].peerId) = {}
     /\ last'.op = "prune" =>
          \A w \in Live :
            ~Fresh(rendezvous, sess[w], now) =>
               ~HasRecord(rendezvous', sess[w].namespace, sess[w].room,
                          sess[w].peerId)
     /\ last'.op = "bootstrap" =>
          /\ last'.body.peers
               = Cardinality(LiveIn(last'.body.namespace, last'.body.room))
          /\ \A w \in LiveIn(last'.body.namespace, last'.body.room) :
               w \in rooms[roomKey(sess[w].namespace, sess[w].room)]
    ]_vars

\* /bootstrap counts a session that was admitted 60 s ago or longer, has
\* sent a frame since and has no registry record any more
C34_Witness ==
  /\ last.op = "bootstrap" /\ last.body.peers = 1
  /\ now >= SESSION_TTL_MS
  /\ metrics.wsMessagesTotal >= 1
  /\ rendezvous = EmptyMap
  /\ \E w \in Live : sess[w].readyState = "OPEN" /\ w \in rooms["n::r"]

(***************************************************************************)
(* The file-sync panel: rows of this.transfers.                            *)
(***************************************************************************)
\* _upsertTransfer: the fields of the row the model keeps; cleanupTimer is
\* taken over from the row that was there
upsertTransfer(trs, transferId, direction, status, canRetry) ==
  MapSet(trs, transferId,
         [direction |-> direction, status |-> status, canRetry |-> canRetry,
          cleanupTimer |-> IF MapHas(trs, transferId)
                           THEN trs[transferId].cleanupTimer ELSE FALSE])

\* _completeTransfer: nothing without a row, else done and a cleanup timer
completeTransfer(trs, transferId) ==
  IF ~MapHas(trs, transferId) THEN trs
  ELSE MapSet(trs, transferId,
              [trs[transferId] EXCEPT !.status = "done", !.canRetry = FALSE,
                                      !.cleanupTimer = TRUE])

\* a _markTransferFailed that leaves the status as it is
markTransferFailedKeepsStatus(trs, transferId, canRetry) ==
  IF ~MapHas(trs, transferId) THEN trs
  ELSE MapSet(trs, transferId,
              [trs[transferId] EXCEPT !.canRetry = canRetry,
                                      !.cleanupTimer = FALSE])

\* _markTransferFailed: nothing without a row, else failed, timer cleared
markTransferFailed(trs, transferId, canRetry) ==
  IF ~MapHas(trs, transferId) THEN trs
  ELSE MapSet(trs, transferId,
              [trs[transferId] EXCEPT !.status = "failed",
                                      !.canRetry = canRetry,
                                      !.cleanupTimer = FALSE])

(***************************************************************************)
(* The file-sync panel: the receiving side.  JavaScript numbers of the     *)
(* model are multiples of one half, or NaN.                                *)
(***************************************************************************)
NaN == [nan |-> TRUE, half |-> 0]
Half(h) == [nan |-> FALSE, half |-> h]

\* Math.max(1, Number(payload.totalChunks || 1)) for a whole totalChunks
startTotalChunks(totalChunks) == IF totalChunks >= 1 THEN totalChunks ELSE 1

\* the incoming object file-transfer-start creates
newIncoming(transferId, totalChunks) ==
  [transferId |-> transferId, totalChunks |-> startTotalChunks(totalChunks),
   chunks |-> {}, receivedChunks |-> 0, finalized |-> FALSE]

\* if (transfer.finalized) return
alreadyFinalizedNever(obj) == FALSE

alreadyFinalized(obj) == obj.finalized

\* the chunk is dropped: Number.isNaN(index) || index < 0 ||
\* index >= transfer.totalChunks
indexRejected(index, totalChunks) ==
  index.nan \/ index.half < 0 \/ index.half >= 2 * totalChunks

\* if (!transfer.chunks[index]) { chunks[index] = decoded; receivedChunks += 1 }
\* chunks holds the property keys set on the array, as halves
storeChunk(obj, index) ==
  IF index.half \in obj.chunks THEN obj
  ELSE [obj EXCEPT !.chunks = @ \cup {index.half}, !.receivedChunks = @ + 1]

\* the array elements 0..totalChunks-1 are all set
AllChunks(obj) == \A i \in 0..(obj.totalChunks - 1) : 2 * i \in obj.chunks

\* a message that passed the namespace, room and sourcePeerId filters:
\* file-transfer-start without retryOfTransferId
HandleStart(transferId, totalChunks) ==
  /\ journal.starts < MaxStarts
  /\ heap' = Append(heap, newIncoming(transferId, totalChunks))
  /\ incomingTransfers' = MapSet(incomingTransfers, transferId, Len(heap) + 1)
  /\ transfers' = upsertTransfer(transfers, transferId, "download",
                                 "receiving", TRUE)
  /\ incomingTransferTimeouts' = incomingTransferTimeouts \cup {transferId}
  /\ journal' = [journal EXCEPT !.starts = @ + 1]
  /\ UNCHANGED <<putFiles, transport, channel, tasks, upload, sendLog,
                 serverVars>>

\* file-chunk: returns early without the transfer, when it is finalized or
\* when the index is rejected; else stores the chunk, touches the timeout
\* and, with receivedChunks === totalChunks, enters
\* _finalizeIncomingTransfer up to its await of storage.putFile
HandleChunk(transferId, index) ==
  LET known == MapHas(incomingTransfers, transferId)
      o == incomingTransfers[transferId]
      dropped == \/ ~known
                 \/ alreadyFinalized(heap[o])
                 \/ indexRejected(index, heap[o].totalChunks)
      obj == storeChunk(heap[o], index)
      full == obj.receivedChunks = obj.totalChunks
  IN /\ journal.frames < MaxFrames
     /\ journal' = [journal EXCEPT
                      !.frames = @ + 1,
                      !.whileFinalized =
                         IF known /\ heap[o].finalized THEN @ + 1 ELSE @]
     /\ heap' = IF dropped THEN heap
                ELSE [heap EXCEPT ![o] = [obj EXCEPT !.finalized = full]]
     /\ transfers' = IF dropped THEN transfers
                     ELSE upsertTransfer(transfers, transferId, "download",
                                         "receiving", TRUE)
     /\ incomingTransferTimeouts' =
          IF dropped THEN incomingTransferTimeouts
          ELSE IF full THEN incomingTransferTimeouts \ {transferId}
          ELSE incomingTransferTimeouts \cup {transferId}
     /\ putFiles' = IF ~dropped /\ full THEN Append(putFiles, o) ELSE putFiles
     /\ UNCHANGED <<incomingTransfers, transport, channel, tasks, upload,
                    sendLog, serverVars>>

\* file-transfer-complete: finalizes when every chunk was counted, else
\* clears the timeout and marks the transfer failed
HandleComplete(transferId) ==
  LET known == MapHas(incomingTransfers, transferId)
      o == incomingTransfers[transferId]
      dropped == ~known \/ alreadyFinalized(heap[o])
      full == heap[o].receivedChunks = heap[o].totalChunks
  IN /\ journal.frames < MaxFrames
     /\ journal' = [journal EXCEPT
                      !.frames = @ + 1,
                      !.whileFinalized =
                         IF known /\ heap[o].finalized THEN @ + 1 ELSE @]
     /\ heap' = IF ~dropped /\ full
                THEN [heap EXCEPT ![o].finalized = TRUE] ELSE heap
     /\ putFiles' = IF ~dropped /\ full THEN Append(putFiles, o) ELSE putFiles
     /\ incomingTransferTimeouts' =
          IF dropped THEN incomingTransferTimeouts
          ELSE incomingTransferTimeouts \ {transferId}
     /\ transfers' = IF ~dropped /\ ~full
                     THEN markTransferFailed(transfers, transferId, TRUE)
                     ELSE transfers
     /\ UNCHANGED <<incomingTransfers, transport, channel, tasks, upload,
                    sendLog, serverVars>>

\* storage.putFile of _finalizeIncomingTransfer settles.  Resolved: the row
\* is upserted and completed, download-complete is emitted and
\* this.incomingTransfers.delete(transfer.transferId) runs.  Rejected:
\* finalized is reset and the row marked failed.
PutFileSettles(call, ok) ==
  LET o == putFiles[call]
      obj == heap[o]
      id == obj.transferId
  IN /\ putFiles' = [i \in 1..(Len(putFiles) - 1) |->
                        IF i < call THEN putFiles[i] ELSE putFiles[i + 1]]
     /\ heap' = IF ok THEN heap ELSE [heap EXCEPT ![o].finalized = FALSE]
     /\ transfers' =
          IF ok
          THEN completeTransfer(upsertTransfer(transfers, id, "download",
                                               "receiving", TRUE), id)
          ELSE markTransferFailed(transfers, id, TRUE)
     /\ incomingTransfers' = IF ok THEN MapDelete(incomingTransfers, id)
                             ELSE incomingTransfers
     /\ journal' =
          IF ok
          THEN [journal EXCEPT !.stored[id] = @ + 1,
                               !.downloadComplete[id] = @ + 1,
                               !.partial = IF AllChunks(obj) THEN @ ELSE @ + 1]
          ELSE journal
     /\ UNCHANGED <<incomingTransferTimeouts, transport, channel, tasks,
                    upload, sendLog, serverVars>>

\* the 10 s timer of _touchIncomingTransferTimeout fires
TimeoutFires(transferId) ==
  LET known == MapHas(incomingTransfers, transferId)
      o == incomingTransfers[transferId]
  IN /\ transferId \in incomingTransferTimeouts
     /\ incomingTransferTimeouts' = incomingTransferTimeouts \ {transferId}
     /\ transfers' = IF ~known \/ heap[o].finalized THEN transfers
                     ELSE markTransferFailed(transfers, transferId, TRUE)
     /\ UNCHANGED <<incomingTransfers, heap, putFiles, journal, transport,
                    channel, tasks, upload, sendLog, serverVars>>

\* the 2.5 s timer of _completeTransfer fires: a row still done is removed
CleanupFires(transferId) ==
  /\ MapHas(transfers, transferId)
  /\ transfers[transferId].cleanupTimer
  /\ transfers' =
       IF transfers[transferId].status = "done"
       THEN MapDelete(transfers, transferId)
       ELSE MapSet(transfers, transferId,
                   [transfers[transferId] EXCEPT !.cleanupTimer = FALSE])
  /\ UNCHANGED <<incomingTransfers, heap, incomingTransferTimeouts, putFiles,
                 journal, transport, channel, tasks, upload, sendLog,
                 serverVars>>

(***************************************************************************)
(* Receiving: starts, chunks with any index, complete messages, storage    *)
(* that may fail, timers.                                                  *)
(***************************************************************************)
\* chunkIndex values: -1, 0, 0.5, 1, ... , MaxChunks, and NaN
ChunkIndexes == {NaN, Half(0 - 2)} \cup {Half(h) : h \in 0..(2 * MaxChunks)}

InitReceive == InitWith({""})

ReceiveStart ==
  \E transferId \in TransferIds, totalChunks \in 0..MaxChunks :
    HandleStart(transferId, totalChunks)

ReceiveChunk ==
  \E transferId \in TransferIds, index \in ChunkIndexes :
    HandleChunk(transferId, index)

ReceiveComplete == \E transferId \in TransferIds : HandleComplete(transferId)

ReceivePutFile ==
  \E call \in 1..Len(putFiles), ok \in BOOLEAN : PutFileSettles(call, ok)

ReceiveTimeout == \E transferId \in TransferIds : TimeoutFires(transferId)

ReceiveCleanup == \E transferId \in TransferIds : CleanupFires(transferId)

NextReceive ==
  \/ ReceiveStart \/ ReceiveChunk \/ ReceiveComplete \/ ReceivePutFile
  \/ ReceiveTimeout \/ ReceiveCleanup

SpecReceive == InitReceive /\ [][NextReceive]_vars

ObjectsOf(transferId) ==
  {o \in 1..Len(heap) : heap[o].transferId = transferId}

\* the storage.putFile calls in flight for an incoming object
InFlight(o) == {call \in 1..Len(putFiles) : putFiles[call] = o}

\* C36: an incoming object has at most one storage.putFile in flight, and
\* only while it is finalized; for every transferId download-complete has
\* been emitted once per successful store and at most once per
\* file-transfer-start handled, whatever arrives while the write is in
\* flight.
C36_FinalizedOnce ==
  /\ \A o \in 1..Len(heap) :
        /\ Cardinality(InFlight(o)) <= 1
        /\ InFlight(o) # {} => heap[o].finalized
  /\ \A t \in TransferIds :
        /\ journal.downloadComplete[t] = journal.stored[t]
        /\ journal.stored[t] <= Cardinality(ObjectsOf(t))

\* the file of a transfer started once was stored once, after a duplicate
\* of its last chunk and its complete message were handled while the write
\* was in flight
C36_Witness ==
  /\ journal.starts = 1 /\ journal.frames = 3
  /\ journal.whileFinalized = 2
  /\ journal.stored["t1"] = 1 /\ journal.downloadComplete["t1"] = 1
  /\ putFiles = <<>>

\* timers fire and storage writes settle
SpecReceiveFair ==
  /\ InitReceive
  /\ [][NextReceive]_vars
  /\ \A transferId \in TransferIds : WF_vars(TimeoutFires(transferId))
  /\ WF_vars(ReceivePutFile)

\* the row of the transfer shows the given status
Shows(transferId, status) ==
  MapHas(transfers, transferId) /\ transfers[transferId].status = status

totalChunksOf(byteLength) ==
  LET ceil == (byteLength + chunkBytes - 1) \div chunkBytes
  IN IF ceil >= 1 THEN ceil ELSE 1

\* maxAttempts that lets every message be retried
maxAttemptsAlways(type) == transferRetryLimit

\* const maxAttempts = allowRetry ? this.transferRetryLimit : 1
maxAttempts(type) == IF type = "file-chunk" THEN transferRetryLimit ELSE 1

\* _sendRoomMessage: returns without sending when this.transport is null,
\* else awaits transport.send, which throws on a closed transport and may
\* fail on an open one (sendOk)
sendRoomMessage(sendOk) ==
  IF transport = 0 THEN "skipped"
  ELSE IF ~channel[transport] THEN "error"
  ELSE IF sendOk THEN "sent" ELSE "error"

\* one pass of the loop of _sendTransferMessageWithRetry up to its await
attemptSend(up, type, index, attempt, sendOk) ==
  [up EXCEPT !.pc = "send", !.type = type, !.index = index,
             !.attempt = attempt, !.outcome = sendRoomMessage(sendOk)]

\* the entry of the send log for the attempt the upload is waiting on
logged(up) == [type |-> up.type, index |-> up.index, outcome |-> up.outcome]

\* _broadcastFileInChunks up to the await of the file-transfer-start send
BeginUpload(byteLength, sendOk) ==
  LET up == attemptSend([upload EXCEPT !.totalChunks =
                                           totalChunksOf(byteLength)],
                        "file-transfer-start", 0, 1, sendOk)
  IN /\ upload.pc = "idle"
     /\ transfers' = upsertTransfer(transfers, UploadId, "upload", "sending",
                                    TRUE)
     /\ upload' = up
     /\ sendLog' = Append(sendLog, logged(up))
     /\ UNCHANGED <<incomingTransfers, heap, incomingTransferTimeouts,
                    putFiles, journal, transport, channel, tasks, serverVars>>

\* the awaited send settles and the upload runs on to its next await: after
\* an error the retry sleep, or failure when the attempts are used up; else
\* the next chunk, file-transfer-complete, or the end of the upload
SendSettles(sendOk) ==
  LET failed == upload.outcome = "error"
      exhausted == upload.attempt >= maxAttempts(upload.type)
      next ==
        IF upload.type = "file-transfer-start"
        THEN attemptSend(upload, "file-chunk", 0, 1, sendOk)
        ELSE IF upload.index + 1 < upload.totalChunks
        THEN attemptSend(upload, "file-chunk", upload.index + 1, 1, sendOk)
        ELSE attemptSend(upload, "file-transfer-complete", 0, 1, sendOk)
      ends == ~failed /\ upload.type = "file-transfer-complete"
  IN /\ upload.pc = "send"
     /\ upload' = IF failed /\ exhausted THEN [upload EXCEPT !.pc = "failed"]
                  ELSE IF failed THEN [upload EXCEPT !.pc = "sleep"]
                  ELSE IF ends THEN [upload EXCEPT !.pc = "done"]
                  ELSE next
     /\ transfers' =
          IF failed /\ exhausted
          THEN markTransferFailed(transfers, UploadId, TRUE)
          ELSE IF failed
          THEN upsertTransfer(transfers, UploadId, "upload", "retrying", TRUE)
          ELSE IF ends THEN completeTransfer(transfers, UploadId)
          ELSE IF upload.type = "file-chunk"
          THEN upsertTransfer(transfers, UploadId, "upload", "sending", TRUE)
          ELSE transfers
     /\ sendLog' = IF failed \/ ends THEN sendLog
                   ELSE Append(sendLog, logged(next))
     /\ journal' = IF ends THEN [journal EXCEPT !.uploadComplete = @ + 1]
                   ELSE journal
     /\ UNCHANGED <<incomingTransfers, heap, incomingTransferTimeouts,
                    putFiles, transport, channel, tasks, serverVars>>

\* sleep(this.retryBaseDelayMs * attempt) returns: the next attempt
SleepReturns(sendOk) ==
  LET up == attemptSend(upload, upload.type, upload.index,
                        upload.attempt + 1, sendOk)
  IN /\ upload.pc = "sleep"
     /\ upload' = up
     /\ sendLog' = Append(sendLog, logged(up))
     /\ UNCHANGED <<transfers, incomingTransfers, heap,
                    incomingTransferTimeouts, putFiles, journal, transport,
                    channel, tasks, serverVars>>

(***************************************************************************)
(* Uploads over a transport that stays connected and may fail to send.     *)
(***************************************************************************)
\* sizes of the file: empty, one byte, one byte more than a chunk, and
\* MaxChunks full chunks
FileSizes == {0, 1, chunkBytes + 1, MaxChunks * chunkBytes}

InitSend == InitWith({""})

SendBegin ==
  \E byteLength \in FileSizes, sendOk \in BOOLEAN :
    BeginUpload(byteLength, sendOk)

SendNext == \E sendOk \in BOOLEAN : SendSettles(sendOk)

SendSleep == \E sendOk \in BOOLEAN : SleepReturns(sendOk)

SendCleanup == CleanupFires(UploadId)

NextSend == SendBegin \/ SendNext \/ SendSleep \/ SendCleanup

\* sends settle and sleeps return
SpecSend ==
  /\ InitSend
  /\ [][NextSend]_vars
  /\ WF_vars(SendNext)
  /\ WF_vars(SendSleep)

\* the positions of the send log that hold the given message
Attempts(type, index) ==
  {i \in 1..Len(sendLog) : sendLog[i].type = type /\ sendLog[i].index = index}

\* the send log is a prefix of: file-transfer-start once, then for the
\* chunks 0, 1, ... in turn at most transferRetryLimit attempts each, a
\* further attempt only after an error, then file-transfer-complete once;
\* nothing follows a failed start or complete or a chunk whose attempts
\* are used up
InSendOrder ==
  /\ \A i \in 1..Len(sendLog) :
        (sendLog[i].type = "file-transfer-start") <=> (i = 1)
  /\ \A i \in 1..Len(sendLog) :
        sendLog[i].type = "file-transfer-complete" => i = Len(sendLog)
  /\ \A i \in 1..Len(sendLog) :
        sendLog[i].type = "file-chunk" =>
           /\ sendLog[i].index \in 0..(upload.totalChunks - 1)
           /\ Cardinality(Attempts("file-chunk", sendLog[i].index))
                <= transferRetryLimit
  /\ \A i \in 2..Len(sendLog) :
        LET prev == sendLog[i - 1]
            this == sendLog[i]
        IN IF prev.outcome = "error"
           THEN /\ prev.type = "file-chunk" /\ this.type = "file-chunk"
                /\ this.index = prev.index
           ELSE IF prev.type = "file-transfer-start"
           THEN this.type = "file-chunk" /\ this.index = 0
           ELSE IF prev.index + 1 < upload.totalChunks
           THEN this.type = "file-chunk" /\ this.index = prev.index + 1
           ELSE this.type = "file-transfer-complete"

\* the upload has ended, and as the claim says it should
EndedAsClaimed ==
  /\ upload.pc = "failed" =>
        /\ sendLog[Len(sendLog)].outcome = "error"
        /\ Cardinality(Attempts(upload.type, upload.index))
             = maxAttempts(upload.type)
        /\ Shows(UploadId, "failed") /\ transfers[UploadId].canRetry
  /\ upload.pc = "done" =>
        /\ sendLog[Len(sendLog)].type = "file-transfer-complete"
        /\ sendLog[Len(sendLog)].outcome # "error"

\* C38: an upload has totalChunks >= 1, calls _sendRoomMessage for
\* file-transfer-start once, then for the chunks in index order with at
\* most transferRetryLimit attempts each, then for file-transfer-complete
\* once; when the attempts for a message are used up the transfer is failed
\* with canRetry and nothing more is sent; and every upload that began
\* ends, done or failed.
C38_SendLoop ==
  /\ [](/\ upload.pc # "idle" => upload.totalChunks >= 1
        /\ InSendOrder
        /\ EndedAsClaimed)
  /\ (upload.pc # "idle") ~> (upload.pc \in {"done", "failed"})

\* an upload of two chunks failed on its second chunk after
\* transferRetryLimit attempts; its first chunk went through
C38_Witness ==
  /\ upload.pc = "failed" /\ upload.type = "file-chunk" /\ upload.index = 1
  /\ Len(sendLog) = 2 + transferRetryLimit
  /\ sendLog[2].outcome = "sent"
  /\ Shows(UploadId, "failed")

(***************************************************************************)
(* The file-sync panel: connect(), disconnect() and destroy().             *)
(***************************************************************************)
\* transport.disconnect() is called: the transport stops taking sends
closeTransport(ch, t) == IF t = 0 THEN ch ELSE [ch EXCEPT ![t] = FALSE]

\* disconnect() up to its await of transport.disconnect(); without a
\* transport it returns at once
Disconnect ==
  /\ journal.calls < MaxCalls
  /\ journal' = [journal EXCEPT !.calls = @ + 1]
  /\ channel' = closeTransport(channel, transport)
  /\ tasks' = IF transport = 0 THEN tasks ELSE tasks \cup {"disconnect"}
  /\ UNCHANGED <<transfers, incomingTransfers, heap,
                 incomingTransferTimeouts, putFiles, transport, upload,
                 sendLog, serverVars>>

\* disconnect() after its await: this.transport = null
DisconnectSettles ==
  /\ "disconnect" \in tasks
  /\ tasks' = tasks \ {"disconnect"}
  /\ transport' = 0
  /\ UNCHANGED <<transfers, incomingTransfers, heap,
                 incomingTransferTimeouts, putFiles, journal, channel, upload,
                 sendLog, serverVars>>

\* connect() up to the await inside _setupStorage; one connect() runs at a
\* time
Connect ==
  /\ journal.calls < MaxCalls
  /\ "storage" \notin tasks /\ "create" \notin tasks
  /\ journal' = [journal EXCEPT !.calls = @ + 1]
  /\ tasks' = tasks \cup {"storage"}
  /\ UNCHANGED <<transfers, incomingTransfers, heap,
                 incomingTransferTimeouts, putFiles, transport, channel,
                 upload, sendLog, serverVars>>

\* _setupStorage ends (every row, incoming transfer and timer is cleared)
\* and connect() runs on: it disconnects the transport it finds and awaits
\* createPeerTransport
ConnectStorageReady ==
  /\ "storage" \in tasks
  /\ tasks' = (tasks \ {"storage"}) \cup {"create"}
  /\ transfers' = EmptyMap
  /\ incomingTransfers' = EmptyMap
  /\ incomingTransferTimeouts' = {}
  /\ channel' = closeTransport(channel, transport)
  /\ UNCHANGED <<heap, putFiles, journal, transport, upload, sendLog,
                 serverVars>>

\* createPeerTransport resolves: this.transport is the new transport
ConnectSettles ==
  LET t == journal.transports + 1
  IN /\ "create" \in tasks
     /\ tasks' = tasks \ {"create"}
     /\ transport' = t
     /\ channel' = [channel EXCEPT ![t] = TRUE]
     /\ journal' = [journal EXCEPT !.transports = t]
     /\ UNCHANGED <<transfers, incomingTransfers, heap,
                    incomingTransferTimeouts, putFiles, upload, sendLog,
                    serverVars>>

\* destroy(): clears the rows, the incoming transfers and the timers and
\* calls disconnect()
Destroy ==
  /\ journal.calls < MaxCalls
  /\ journal' = [journal EXCEPT !.calls = @ + 1]
  /\ transfers' = EmptyMap
  /\ incomingTransfers' = EmptyMap
  /\ incomingTransferTimeouts' = {}
  /\ channel' = closeTransport(channel, transport)
  /\ tasks' = IF transport = 0 THEN tasks ELSE tasks \cup {"disconnect"}
  /\ UNCHANGED <<heap, putFiles, transport, upload, sendLog, serverVars>>

(***************************************************************************)
(* Uploads while the panel is disconnected, reconnected or destroyed.      *)
(***************************************************************************)
InitLink == InitWith({""})

NextLink ==
  \/ SendBegin \/ SendNext \/ SendSleep \/ SendCleanup
  \/ Disconnect \/ DisconnectSettles
  \/ Connect \/ ConnectStorageReady \/ ConnectSettles
  \/ Destroy

SpecLink == InitLink /\ [][NextLink]_vars

\* the message was handed to transport.send and the send did not fail
Handed(type, index) ==
  \E i \in Attempts(type, index) : sendLog[i].outcome = "sent"

\* C39: an upload is done, or upload-complete emitted, only if
\* file-transfer-start, each of the totalChunks chunks and
\* file-transfer-complete were handed to transport.send without error.
C39_DoneOnlyIfSent ==
  (upload.pc = "done" \/ journal.uploadComplete > 0) =>
     /\ Handed("file-transfer-start", 0)
     /\ \A index \in 0..(upload.totalChunks - 1) : Handed("file-chunk", index)
     /\ Handed("file-transfer-complete", 0)

====
